---- MODULE Spec2Model ----
(***************************************************************************)
(* DMuffler: RPM-driven engine sound.                                      *)
(*                                                                         *)
(*   dmuffler_pi.py            CAN decode, RPM -> audio file lookup, the   *)
(*                             main loop and its playback threads          *)
(*   EngineSoundPitchShifter   the pitch shifting audio callback and the   *)
(*                             gas pedal loop                              *)
(*                                                                         *)
(* Numbers the program holds as floats (RPM, scale factor, offset) are     *)
(* fixed-point integers counting 1/ScaleDen RPM.  The absent value None is *)
(* the empty sequence, a present value v is <<v>>.                         *)
(***************************************************************************)
EXTENDS Integers, Sequences, FiniteSets, TLC

VARIABLES
    call,           \* harness: the function under call and its arguments
    ret,            \* harness: what the call returned
    audio_files,    \* dict RPM key -> path of the WAV file (load_audio_files)
    args,           \* the parsed command line
    p_audio_instance,           \* "none", "live" or "terminated"
    can_bus,                    \* "none", "up" or "shutdown"
    current_rpm,
    last_played_audio_file,
    audio_playback_thread,      \* the active playback thread, NoThread for None
    current_sim_rpm,
    rpm_sim_direction,
    main_pc,                    \* where the main thread of dmuffler_pi.py stands
    active_thread_to_join,
    threads,                    \* the playback threads alive, by slot
    last_tick,                  \* what the latest iteration acquired, while the loop runs
    feed,                       \* frames the bus will deliver, in order
    shifter,                    \* the EngineSoundPitchShifter object's attributes
    callback,                   \* the invocation of audio_callback in progress
    shifter_pc                  \* where the main thread of EngineSoundPitchShifter.py stands

harness_vars == <<call, ret>>
main_vars == <<args, p_audio_instance, can_bus, current_rpm, last_played_audio_file,
               audio_playback_thread, current_sim_rpm, rpm_sim_direction, main_pc,
               active_thread_to_join, threads, last_tick, feed>>

shifter_vars == <<shifter, callback, shifter_pc>>

vars == <<call, ret, audio_files, main_vars, shifter_vars>>

NoThread == 0

\* the main program of dmuffler_pi.py is not running
MainParked ==
    /\ args = <<>>
    /\ p_audio_instance = "none"
    /\ can_bus = "none"
    /\ current_rpm = 0
    /\ last_played_audio_file = <<>>
    /\ audio_playback_thread = NoThread
    /\ current_sim_rpm = 0
    /\ rpm_sim_direction = 1
    /\ main_pc = "parked"
    /\ active_thread_to_join = NoThread
    /\ threads = <<>>
    /\ last_tick = "none"
    /\ feed = <<>>

\* EngineSoundPitchShifter.py is not running
ShifterParked ==
    /\ shifter = <<>>
    /\ callback = <<>>
    /\ shifter_pc = "parked"

\* no function is under call in the harness
HarnessParked ==
    /\ call = [op |-> "none"]
    /\ ret = [stage |-> "none", value |-> <<>>]

(***************************************************************************)
(* Bounds of the model.                                                    *)
(***************************************************************************)
ScaleDen == 8          \* resolution of the fixed-point RPM grid
MaxPayloadLen == 3     \* longest CAN payload enumerated
MaxByteIndex == 1      \* largest --rpm-byte-index enumerated

NoValue == <<>>
Some(v) == <<v>>

Min2(a, b) == IF a <= b THEN a ELSE b
Abs(x) == IF x < 0 THEN -x ELSE x

(***************************************************************************)
(* get_rpm_from_can_message (dmuffler_pi.py 671-761)                       *)
(*                                                                         *)
(* The length chain of lines 725-756 is read as the statements stand:      *)
(*   if   len(data) >= byte_index + required_bytes: two bytes, little end  *)
(*   elif len(data) >= byte_index + 1:              the single byte        *)
(*   else:                                          return None            *)
(*   rpm = raw * scale_factor + rpm_offset; return rpm                     *)
(* the whole inside try/except Exception -> None.                          *)
(***************************************************************************)
required_bytes == 2

\* data[lo:hi] of Python for 0 <= lo <= hi (0-based, hi exclusive, clipped)
Slice(data, lo, hi) ==
    IF lo >= Len(data) THEN <<>> ELSE SubSeq(data, lo + 1, Min2(hi, Len(data)))

RECURSIVE int_from_bytes_big(_)
int_from_bytes_big(bs) ==
    IF bs = <<>> THEN 0
    ELSE bs[Len(bs)] + 256 * int_from_bytes_big(SubSeq(bs, 1, Len(bs) - 1))

\* int.from_bytes(bs, byteorder='little')
RECURSIVE int_from_bytes_little(_)
int_from_bytes_little(bs) ==
    IF bs = <<>> THEN 0
    ELSE bs[1] + 256 * int_from_bytes_little(Tail(bs))

\* the payload indices (0-based) the decode reads for a frame of the target id
BytesRead(data, byte_index) ==
    IF Len(data) >= byte_index + required_bytes
    THEN byte_index .. (byte_index + required_bytes - 1)
    ELSE IF Len(data) >= byte_index + 1 THEN {byte_index}
    ELSE {}

\* raw_rpm_value of lines 725-747; NoValue where the chain returns None
raw_rpm_value(data, byte_index) ==
    IF Len(data) >= byte_index + required_bytes
    THEN Some(int_from_bytes_little(Slice(data, byte_index, byte_index + required_bytes)))
    ELSE IF Len(data) >= byte_index + 1
    THEN Some(data[byte_index + 1])
    ELSE NoValue

\* scale_factor and rpm_offset count 1/ScaleDen; so does the result
get_rpm_from_can_message(msg, target_can_id, byte_index, scale_factor, rpm_offset) ==
    IF msg.arbitration_id = target_can_id
    THEN LET raw == raw_rpm_value(msg.data, byte_index)
         IN  IF raw = NoValue THEN NoValue
             ELSE Some(raw[1] * scale_factor + rpm_offset)
    ELSE NoValue

(***************************************************************************)
(* Inputs of the decode: frames and the command line values.               *)
(***************************************************************************)
TargetId == 291        \* 0x123, the RPM frame of the usage text
OtherId == TargetId + 1

Bytes == {0, 16, 39, 255}

RECURSIVE SeqsUpTo(_, _)
SeqsUpTo(S, n) ==
    IF n = 0 THEN {<<>>}
    ELSE LET shorter == SeqsUpTo(S, n - 1)
         IN  shorter \cup {Append(s, x) : s \in {t \in shorter : Len(t) = n - 1}, x \in S}

Payloads == SeqsUpTo(Bytes, MaxPayloadLen)

Frames == [arbitration_id : {TargetId, OtherId}, data : Payloads]

DecodeArgs ==
    [target_can_id : {TargetId},
     byte_index : 0 .. MaxByteIndex,
     scale_factor : {1, ScaleDen, 2 * ScaleDen},       \* 0.125, 1.0, 2.0
     rpm_offset : {0, 0 - 4 * ScaleDen}]               \* 0.0, -4.0

Pending == [stage |-> "called", value |-> NoValue]
Returned(v) == [stage |-> "returned", value |-> v]

InitDecode ==
    /\ call \in [op : {"get_rpm_from_can_message"}, msg : Frames, args : DecodeArgs]
    /\ ret = Pending
    /\ audio_files = <<>>
    /\ MainParked
    /\ ShifterParked

Decode ==
    /\ call.op = "get_rpm_from_can_message"
    /\ ret.stage = "called"
    /\ ret' = Returned(get_rpm_from_can_message(call.msg, call.args.target_can_id,
                  call.args.byte_index, call.args.scale_factor, call.args.rpm_offset))
    /\ UNCHANGED <<shifter_vars, call, audio_files, main_vars>>

NextDecode == Decode

SpecDecode == InitDecode /\ [][NextDecode]_vars

DecodedTarget ==
    /\ call.op = "get_rpm_from_can_message"
    /\ ret.stage = "returned"
    /\ call.msg.arbitration_id = call.args.target_can_id

\* C1: a frame of the target id whose payload holds at least byte_index + 2
\* bytes decodes to exactly raw * scale_factor + rpm_offset, raw being the
\* unsigned 16-bit little-endian integer of payload[byte_index] and
\* payload[byte_index + 1].
C1_DecodeExact ==
    (DecodedTarget /\ Len(call.msg.data) >= call.args.byte_index + 2) =>
        LET d == call.msg.data
            i == call.args.byte_index
            raw == d[i + 1] + 256 * d[i + 2]
        IN  ret.value = Some(raw * call.args.scale_factor + call.args.rpm_offset)

\* bytes 0x10 0x27 at index 0, scale 1.0, offset 0.0 decode to 10000.0
C1_Witness ==
    /\ DecodedTarget
    /\ call.msg.data = <<16, 39>>
    /\ call.args.byte_index = 0
    /\ call.args.scale_factor = ScaleDen
    /\ call.args.rpm_offset = 0
    /\ ret.value = Some(10000 * ScaleDen)

\* C2: a frame of the target id whose payload is shorter than byte_index + 2
\* decodes to a failure (no RPM value, never a value computed from fewer
\* bytes), and no payload byte at an index >= the payload length is read.
C2_ShortPayloadFails ==
    (DecodedTarget /\ Len(call.msg.data) < call.args.byte_index + 2) =>
        /\ ret.value = NoValue
        /\ \A i \in BytesRead(call.msg.data, call.args.byte_index) : i < Len(call.msg.data)

(***************************************************************************)
(* load_audio_files (dmuffler_pi.py 360-383)                               *)
(*                                                                         *)
(* A file name is the sequence of its characters.  The path stored for a   *)
(* key is os.path.join(path, f); the directory being the same for every    *)
(* file, the model keeps f.                                                *)
(***************************************************************************)
Digits == <<"0", "1", "2", "3", "4", "5", "6", "7", "8", "9">>

\* the characters of the modelled names, in code point order
CodePoints ==
    <<".", "0", "1", "2", "3", "4", "5", "6", "7", "8", "9",
      "A", "V", "W", "_",
      "a", "d", "e", "g", "h", "i", "l", "m", "p", "r", "t", "v", "w", "x">>

Ord(c) == CHOOSE i \in 1 .. Len(CodePoints) : CodePoints[i] = c

IsDigit(c) == \E i \in 1 .. Len(Digits) : Digits[i] = c
DigitValue(c) == (CHOOSE i \in 1 .. Len(Digits) : Digits[i] = c) - 1

\* str.lower() on one character
LowerChar(c) ==
    CASE c = "A" -> "a" [] c = "V" -> "v" [] c = "W" -> "w" [] OTHER -> c

lower(f) == [i \in 1 .. Len(f) |-> LowerChar(f[i])]

endswith(f, suffix) ==
    /\ Len(f) >= Len(suffix)
    /\ SubSeq(f, Len(f) - Len(suffix) + 1, Len(f)) = suffix

\* f.split(sep)[0]: the text before the first occurrence of sep, or all of f
SplitFirst(f, sep) ==
    LET hits == {i \in 1 .. (Len(f) - Len(sep) + 1) : SubSeq(f, i, i + Len(sep) - 1) = sep}
    IN  IF hits = {} THEN f
        ELSE SubSeq(f, 1, (CHOOSE i \in hits : \A j \in hits : i <= j) - 1)

\* int(s) succeeds: decimal digits, single underscores between digits allowed
\* (no sign or blank occurs in the modelled names)
IsIntLiteral(s) ==
    /\ s # <<>>
    /\ IsDigit(s[1]) /\ IsDigit(s[Len(s)])
    /\ \A i \in 1 .. Len(s) : IsDigit(s[i]) \/ s[i] = "_"
    /\ \A i \in 1 .. (Len(s) - 1) : ~(s[i] = "_" /\ s[i + 1] = "_")

RECURSIVE IntOf(_)
IntOf(s) ==
    IF s = <<>> THEN 0
    ELSE IF s[Len(s)] = "_" THEN IntOf(SubSeq(s, 1, Len(s) - 1))
    ELSE DigitValue(s[Len(s)]) + 10 * IntOf(SubSeq(s, 1, Len(s) - 1))

\* a < b for str
RECURSIVE StrLess(_, _)
StrLess(a, b) ==
    IF b = <<>> THEN FALSE
    ELSE IF a = <<>> THEN TRUE
    ELSE IF a[1] # b[1] THEN Ord(a[1]) < Ord(b[1])
    ELSE StrLess(Tail(a), Tail(b))

\* sorted(os.listdir(path))
RECURSIVE sorted(_)
sorted(names) ==
    IF names = {} THEN <<>>
    ELSE LET first == CHOOSE n \in names : \A m \in names : m = n \/ StrLess(n, m)
         IN  <<first>> \o sorted(names \ {first})

Str_rpm == <<"r", "p", "m">>
Str_wav == <<".", "w", "a", "v">>

\* loaded_files after the names fs (in this order) went through the loop body
RECURSIVE LoadLoop(_, _)
LoadLoop(fs, loaded_files) ==
    IF fs = <<>> THEN loaded_files
    ELSE LET f == Head(fs)
             prefix == SplitFirst(f, Str_rpm)
         IN  IF endswith(lower(f), Str_wav) /\ IsIntLiteral(prefix)
             THEN LET rpm_key == IntOf(prefix)
                  IN  LoadLoop(Tail(fs),
                          [k \in (DOMAIN loaded_files) \cup {rpm_key} |->
                              IF k = rpm_key THEN f ELSE loaded_files[k]])
             ELSE LoadLoop(Tail(fs), loaded_files)

\* listing: the names in the directory; NoValue when path is no directory
load_audio_files(listing) ==
    IF listing = NoValue THEN <<>>
    ELSE LoadLoop(sorted(listing[1]), <<>>)

(***************************************************************************)
(* get_audio_file_for_rpm (dmuffler_pi.py 597-642)                         *)
(* rpm counts 1/ScaleDen RPM; the keys and min_rpm are whole RPM.          *)
(***************************************************************************)
NoFile == <<>>

suitable_keys_strict(rpm, available_audio_files) ==
    {r \in DOMAIN available_audio_files : r * ScaleDen < rpm}

\* [r for r in available_audio_files.keys() if r <= rpm]
suitable_rpm_keys(rpm, available_audio_files) ==
    {r \in DOMAIN available_audio_files : r * ScaleDen <= rpm}

lowest_key(keys) == CHOOSE k \in keys : \A j \in keys : k <= j

\* max(suitable_rpm_keys)
best_match_rpm(keys) == CHOOSE k \in keys : \A j \in keys : j <= k

\* min(keys, key=lambda r_key: abs(r_key - rpm)); it is reached only with
\* every key above rpm, where no two keys are equally close
closest_rpm_key(rpm, keys) ==
    CHOOSE k \in keys : \A j \in keys :
        Abs(k * ScaleDen - rpm) <= Abs(j * ScaleDen - rpm)

get_audio_file_for_rpm(rpm, available_audio_files, min_rpm, max_rpm) ==
    IF DOMAIN available_audio_files = {} THEN NoFile
    ELSE IF rpm < min_rpm * ScaleDen THEN NoFile
    ELSE LET suitable == suitable_rpm_keys(rpm, available_audio_files)
         IN  IF suitable = {}
             THEN IF rpm >= min_rpm * ScaleDen
                  THEN available_audio_files[
                           closest_rpm_key(rpm, DOMAIN available_audio_files)]
                  ELSE NoFile
             ELSE available_audio_files[best_match_rpm(suitable)]

(***************************************************************************)
(* Inputs of the lookup: directory listings, RPM values, --min-rpm.        *)
(***************************************************************************)
F_idle == <<"0", "r", "p", "m", "_", "i", "d", "l", "e", ".", "w", "a", "v">>
F_mid == <<"3", "0", "0", "0", "r", "p", "m", "_", "m", "i", "d", ".", "w", "a", "v">>
F_high == <<"6", "0", "0", "0", "r", "p", "m", "_", "h", "i", "g", "h", ".", "w", "a", "v">>
F_mid_dup == <<"0", "3", "0", "0", "0", "r", "p", "m", ".", "w", "a", "v">>
F_1500 == <<"1", "5", "0", "0", "r", "p", "m", ".", "W", "A", "V">>
F_text == <<"8", "0", "0", "r", "p", "m", ".", "t", "x", "t">>
F_unkeyed == <<"i", "d", "l", "e", ".", "w", "a", "v">>

FileNames == {F_idle, F_mid, F_high, F_mid_dup, F_1500, F_text, F_unkeyed}

Listings == {NoValue} \cup {Some(fs) : fs \in SUBSET FileNames}

MinRpmDefault == 1000
MaxRpmDefault == 8000

\* RPM values (whole RPM) around the keys of the modelled files
RpmPoints == {0, 500, 1000, 1500, 2900, 3000, 3100, 5990, 6000, 6200}

RpmInputs == {r * ScaleDen : r \in RpmPoints} \cup {r * ScaleDen - 1 : r \in RpmPoints}

MinRpms == {0, MinRpmDefault}

InitSelect ==
    /\ call \in [op : {"get_audio_file_for_rpm"}, listing : Listings,
                 rpm : RpmInputs, min_rpm : MinRpms, max_rpm : {MaxRpmDefault}]
    /\ ret = Pending
    /\ audio_files = <<>>
    /\ MainParked
    /\ ShifterParked

\* audio_files = load_audio_files(args.audio_path, args.debug)
LoadAudioFiles ==
    /\ call.op = "get_audio_file_for_rpm"
    /\ ret.stage = "called"
    /\ audio_files' = load_audio_files(call.listing)
    /\ ret' = [ret EXCEPT !.stage = "loaded"]
    /\ UNCHANGED <<shifter_vars, call, main_vars>>

Select ==
    /\ call.op = "get_audio_file_for_rpm"
    /\ ret.stage = "loaded"
    /\ ret' = Returned(get_audio_file_for_rpm(call.rpm, audio_files,
                                              call.min_rpm, call.max_rpm))
    /\ UNCHANGED <<shifter_vars, call, audio_files, main_vars>>

NextSelect == LoadAudioFiles \/ Select

SpecSelect == InitSelect /\ [][NextSelect]_vars

Selected == call.op = "get_audio_file_for_rpm" /\ ret.stage = "returned"

\* C5: for a non-empty catalog and an RPM at or above min_rpm the lookup
\* returns the asset of the largest threshold <= RPM, and the asset of the
\* lowest threshold (never silence) when the RPM is below every threshold.
C5_LargestThresholdAtOrBelow ==
    (Selected /\ DOMAIN audio_files # {} /\ call.rpm >= call.min_rpm * ScaleDen) =>
        \E k \in DOMAIN audio_files :
            /\ ret.value = audio_files[k]
            /\ \/ /\ k * ScaleDen <= call.rpm
                  /\ \A j \in DOMAIN audio_files : j * ScaleDen <= call.rpm => j <= k
               \/ /\ \A j \in DOMAIN audio_files : j * ScaleDen > call.rpm
                  /\ \A j \in DOMAIN audio_files : k <= j

\* an RPM below every threshold: the lowest asset, not silence
C5_Witness ==
    /\ Selected
    /\ call.min_rpm = 0
    /\ DOMAIN audio_files = {1500, 3000}
    /\ call.rpm = 500 * ScaleDen
    /\ ret.value = F_1500

AtOwnThreshold(k) == k \in DOMAIN audio_files /\ call.rpm = k * ScaleDen

\* C8 as claimed: for every asset of a loaded catalog, selecting at the
\* asset's own threshold RPM returns exactly that asset.
C8_RoundTripAnyThreshold ==
    Selected => \A k \in DOMAIN audio_files :
        AtOwnThreshold(k) => ret.value = audio_files[k]

\* C8 as amended: for every asset of a loaded catalog whose threshold is at
\* or above min_rpm, selecting at the asset's own threshold RPM returns
\* exactly that asset; below min_rpm the lookup returns no asset.
C8_RoundTripAboveFloor ==
    Selected => \A k \in DOMAIN audio_files : AtOwnThreshold(k) =>
        ret.value = (IF k >= call.min_rpm THEN audio_files[k] ELSE NoFile)

\* two names share the key 3000; the one loaded last is the asset
C8_Witness ==
    /\ Selected
    /\ call.listing = Some({F_idle, F_mid, F_mid_dup, F_text, F_unkeyed})
    /\ call.min_rpm = MinRpmDefault
    /\ AtOwnThreshold(3000)
    /\ ret.value = F_mid

(***************************************************************************)
(* play_audio_segment_threaded (dmuffler_pi.py 460-532)                    *)
(*                                                                         *)
(* One playback thread per started sound.  pc of a thread:                 *)
(*   "unborn"       not created                                            *)
(*   "start"        started, before wave.open / pya_instance.open          *)
(*   "loop"         at the head of `while len(data) > 0`                   *)
(*   "write"        past the active-thread test, before thread_stream.write*)
(*   "finally"      at the finally block                                   *)
(*   "clear_set"    past `if audio_playback_thread == current_thread_obj`, *)
(*                  before `audio_playback_thread = None`                  *)
(* A thread that has returned leaves its slot ("unborn" again): nothing    *)
(* refers to a finished thread but is_alive(), which is False for it.      *)
(* wav_path is the argument until wave.open has read it (only log lines    *)
(* read it afterwards).  late counts the chunks the thread wrote in its    *)
(* loop while it was not the active thread.                                *)
(***************************************************************************)
MaxThreads == 2        \* playback threads alive at a time
ClipChunks == 2        \* chunks of chunk_size frames in a WAV file

ThreadIds == 1 .. MaxThreads

Unborn == [pc |-> "unborn", wav_path |-> NoFile, left |-> 0,
           stream |-> "none", wf |-> "none", late |-> 0]

\* a thread that takes up a clip one chunk in
started_midway(wav_path) == [pc |-> "loop", wav_path |-> NoFile, left |-> ClipChunks - 1,
                             stream |-> "open", wf |-> "open", late |-> 0]

\* threading.Thread(target=play_audio_segment_threaded, ...).start()
Started(wav_path) == [pc |-> "start", wav_path |-> wav_path, left |-> 0,
                      stream |-> "none", wf |-> "none", late |-> 0]

is_alive(t) == t # NoThread /\ threads[t].pc # "unborn"

\* a thread that runs only while it is the active one or the loop has ended
runs_when_released(t) ==
    /\ main_pc \notin {"parked", "exited"}
    /\ threads[t].pc # "unborn"
    /\ (audio_playback_thread = t \/ main_pc # "loop")

\* daemon threads run until the process has exited
ThreadRuns(t) == main_pc \notin {"parked", "exited"} /\ threads[t].pc # "unborn"

never_interrupted(t) == FALSE

\* if audio_playback_thread != current_thread_obj  (line 496)
interrupted(t) == audio_playback_thread # t

\* lines 471-492: open the wave file and the stream, read the first chunk
ThreadOpen(t) ==
    /\ ThreadRuns(t)
    /\ threads[t].pc = "start"
    /\ \E outcome \in {"ok", "FileNotFoundError", "stream_error"} :
          threads' = [threads EXCEPT ![t] =
              CASE outcome = "ok" ->
                     [@ EXCEPT !.wf = "open", !.stream = "open",
                               !.left = ClipChunks, !.pc = "loop",
                               !.wav_path = NoFile]
                [] outcome = "FileNotFoundError" ->
                     [@ EXCEPT !.pc = "finally", !.wav_path = NoFile]
                [] outcome = "stream_error" ->
                     [@ EXCEPT !.wf = "open", !.pc = "finally",
                               !.wav_path = NoFile]]
    /\ UNCHANGED <<shifter_vars, harness_vars, audio_files, args, p_audio_instance, can_bus,
                   current_rpm, last_played_audio_file, audio_playback_thread,
                   current_sim_rpm, rpm_sim_direction, main_pc,
                   active_thread_to_join, last_tick, feed>>

\* lines 493-499: the loop test and the active-thread test
ThreadLoop(t) ==
    /\ ThreadRuns(t)
    /\ threads[t].pc = "loop"
    /\ threads' = [threads EXCEPT ![t] =
                      IF threads[t].left = 0 \/ interrupted(t)
                      THEN [@ EXCEPT !.pc = "finally", !.left = 0, !.late = 0]
                      ELSE [@ EXCEPT !.pc = "write"]]
    /\ UNCHANGED <<shifter_vars, harness_vars, audio_files, args, p_audio_instance, can_bus,
                   current_rpm, last_played_audio_file, audio_playback_thread,
                   current_sim_rpm, rpm_sim_direction, main_pc,
                   active_thread_to_join, last_tick, feed>>

\* lines 500-501: write the chunk, read the next one
ThreadWrite(t) ==
    /\ ThreadRuns(t)
    /\ threads[t].pc = "write"
    /\ \E outcome \in {"ok", "error"} :
          threads' = [threads EXCEPT ![t] =
              IF outcome = "ok"
              THEN [@ EXCEPT !.left = @ - 1,
                             !.late = IF audio_playback_thread # t THEN @ + 1 ELSE @,
                             !.pc = "loop"]
              ELSE [@ EXCEPT !.pc = "finally", !.left = 0, !.late = 0]]
    /\ UNCHANGED <<shifter_vars, harness_vars, audio_files, args, p_audio_instance, can_bus,
                   current_rpm, last_played_audio_file, audio_playback_thread,
                   current_sim_rpm, rpm_sim_direction, main_pc,
                   active_thread_to_join, last_tick, feed>>

\* lines 514-529: close the stream and the wave file, then test
\* `audio_playback_thread == current_thread_obj`; a thread that is not the
\* active one returns
ThreadFinally(t) ==
    /\ ThreadRuns(t)
    /\ threads[t].pc = "finally"
    /\ threads' = [threads EXCEPT ![t] =
          IF audio_playback_thread = t
          THEN [@ EXCEPT !.stream = IF @ = "open" THEN "closed" ELSE @,
                         !.wf = IF @ = "open" THEN "closed" ELSE @,
                         !.pc = "clear_set"]
          ELSE Unborn]
    /\ UNCHANGED <<shifter_vars, harness_vars, audio_files, args, p_audio_instance, can_bus,
                   current_rpm, last_played_audio_file, audio_playback_thread,
                   current_sim_rpm, rpm_sim_direction, main_pc,
                   active_thread_to_join, last_tick, feed>>

\* line 530: audio_playback_thread = None, and the thread returns
ThreadClearSet(t) ==
    /\ ThreadRuns(t)
    /\ threads[t].pc = "clear_set"
    /\ audio_playback_thread' = NoThread
    /\ threads' = [threads EXCEPT ![t] = Unborn]
    /\ UNCHANGED <<shifter_vars, harness_vars, audio_files, args, p_audio_instance, can_bus,
                   current_rpm, last_played_audio_file,
                   current_sim_rpm, rpm_sim_direction, main_pc,
                   active_thread_to_join, last_tick, feed>>

PlaybackThread ==
    \E t \in ThreadIds :
        \/ ThreadOpen(t)
        \/ ThreadLoop(t)
        \/ ThreadWrite(t)
        \/ ThreadFinally(t)
        \/ ThreadClearSet(t)

(***************************************************************************)
(* The main loop (dmuffler_pi.py 950-1059) and the finally block           *)
(* (1066-1123).  main_pc: "loop" in the loop, "cleanup" past the break of  *)
(* line 995, then "join", "terminate", "bus_shutdown" before the           *)
(* statements so named, and "exited".                                      *)
(***************************************************************************)
RandLow == 20
RandHigh == 100

\* random.randint(20, 100): both ends and a value between
SimSteps == {RandLow, (RandLow + RandHigh) \div 2, RandHigh}

sim_walk_overshoot(sim, dir, step, min_rpm, max_rpm) ==
    IF dir = 1
    THEN [sim |-> sim + step, dir |-> IF sim + step > max_rpm THEN -1 ELSE 1]
    ELSE [sim |-> sim - step, dir |-> IF sim - step < min_rpm THEN 1 ELSE -1]

\* lines 962-971: one step of the simulated RPM
sim_walk(sim, dir, step, min_rpm, max_rpm) ==
    IF dir = 1
    THEN IF sim + step > max_rpm
         THEN [sim |-> max_rpm, dir |-> -1]
         ELSE [sim |-> sim + step, dir |-> 1]
    ELSE IF sim - step < min_rpm
         THEN [sim |-> min_rpm, dir |-> 1]
         ELSE [sim |-> sim - step, dir |-> -1]

\* what can_bus.recv(timeout=0.05) does: None, a message, or can.CanError
Timeout == [kind |-> "timeout", msg |-> NoValue]
CanError == [kind |-> "error", msg |-> NoValue]
Received(m) == [kind |-> "frame", msg |-> Some(m)]

live_acquire_zero(rx, rpm, a) ==
    IF rx.kind = "error" THEN [rpm |-> 0, flow |-> "continue", got |-> "error"]
    ELSE IF rx.kind = "timeout" THEN [rpm |-> 0, flow |-> "audio", got |-> "timeout"]
    ELSE LET rpm_value == get_rpm_from_can_message(rx.msg[1], a.rpm_can_id,
                              a.rpm_byte_index, a.rpm_scale_factor, a.rpm_offset)
         IN  IF rpm_value # NoValue
             THEN [rpm |-> rpm_value[1], flow |-> "audio", got |-> "rpm"]
             ELSE [rpm |-> 0, flow |-> "audio",
                   got |-> IF rx.msg[1].arbitration_id = a.rpm_can_id
                           THEN "undecoded" ELSE "mismatch"]

\* lines 977-991: the new current_rpm and where the iteration goes next
\* ("audio": on to the audio logic; "continue": back to the loop head)
live_acquire(rx, rpm, a) ==
    IF rx.kind = "error" THEN [rpm |-> rpm, flow |-> "continue", got |-> "error"]
    ELSE IF rx.kind = "timeout" THEN [rpm |-> rpm, flow |-> "audio", got |-> "timeout"]
    ELSE LET rpm_value == get_rpm_from_can_message(rx.msg[1], a.rpm_can_id,
                              a.rpm_byte_index, a.rpm_scale_factor, a.rpm_offset)
         IN  IF rpm_value # NoValue
             THEN [rpm |-> rpm_value[1], flow |-> "audio", got |-> "rpm"]
             ELSE [rpm |-> rpm, flow |-> "audio",
                   got |-> IF rx.msg[1].arbitration_id = a.rpm_can_id
                           THEN "undecoded" ELSE "mismatch"]

restart_always(target_audio_file, last) == TRUE

audio_handle_only == p_audio_instance # "none"

\* line 1009: if target_audio_file != last_played_audio_file
selection_changed(target_audio_file, last) == target_audio_file # last

\* line 998: if not args.no_audio and p_audio_instance
audio_enabled == ~args.no_audio /\ p_audio_instance # "none"

\* one iteration of `while True` (lines 958-1059); rx is what recv does and
\* step what random.randint returns, each used in its own mode only.  The
\* locals of the iteration are bound once each, as singleton choices.
MainLoopTick(rx, step) ==
    /\ main_pc = "loop"
    /\ \E walk \in {sim_walk(current_sim_rpm, rpm_sim_direction, step,
                             args.min_rpm, args.max_rpm)} :
       \E acq \in {IF args.test_mode
                   THEN [rpm |-> walk.sim * ScaleDen, flow |-> "audio", got |-> "sim"]
                   ELSE IF can_bus # "none"
                   THEN live_acquire(rx, current_rpm, args)
                   ELSE [rpm |-> current_rpm, flow |-> "break", got |-> "halt"]} :
       \E target_audio_file \in {get_audio_file_for_rpm(acq.rpm, audio_files,
                                                        args.min_rpm, args.max_rpm)} :
       \E audio \in {acq.flow = "audio" /\ audio_enabled} :
       \E start \in {/\ audio
                     /\ target_audio_file # NoFile
                     /\ selection_changed(target_audio_file, last_played_audio_file)} :
       \E free \in {{t \in ThreadIds : threads[t].pc = "unborn"}} :
           /\ start => free # {}
           /\ current_rpm' = acq.rpm
           /\ last_tick' = acq.got
           /\ IF args.test_mode
              THEN current_sim_rpm' = walk.sim /\ rpm_sim_direction' = walk.dir
              ELSE UNCHANGED <<current_sim_rpm, rpm_sim_direction>>
           /\ IF start
              THEN \E new_thread \in {t \in free : \A u \in free : t <= u} :
                      /\ threads' = [threads EXCEPT
                                        ![new_thread] = Started(target_audio_file)]
                      /\ audio_playback_thread' = new_thread
                      /\ last_played_audio_file' = target_audio_file
              ELSE /\ UNCHANGED <<threads, audio_playback_thread>>
                   /\ last_played_audio_file' =
                        IF audio /\ target_audio_file = NoFile
                        THEN NoFile
                        ELSE last_played_audio_file
           /\ main_pc' = IF acq.flow = "break" THEN "cleanup" ELSE "loop"
    /\ UNCHANGED <<shifter_vars, harness_vars, audio_files, args, p_audio_instance, can_bus,
                   active_thread_to_join>>

\* The try block is left, by KeyboardInterrupt (line 1061) at any iteration
\* or by the break of line 995, and lines 1072-1081 of the finally block
\* signal the active playback thread
EnterFinally ==
    /\ main_pc \in {"loop", "cleanup"}
    /\ last_tick' = "none"
    /\ IF is_alive(audio_playback_thread)
       THEN /\ active_thread_to_join' = audio_playback_thread
            /\ audio_playback_thread' = NoThread
            /\ main_pc' = "join"
       ELSE /\ UNCHANGED <<active_thread_to_join, audio_playback_thread>>
            /\ main_pc' = "terminate"
    /\ UNCHANGED <<shifter_vars, harness_vars, audio_files, args, p_audio_instance, can_bus,
                   current_rpm, last_played_audio_file,
                   current_sim_rpm, rpm_sim_direction,
                   threads, feed>>

\* lines 1083-1090: join(timeout=1.0) returns when the thread has finished,
\* or when the second has passed
CleanupJoin ==
    /\ main_pc = "join"
    /\ \E timed_out \in BOOLEAN : timed_out \/ ~is_alive(active_thread_to_join)
    /\ main_pc' = "terminate"
    /\ UNCHANGED <<shifter_vars, harness_vars, audio_files, args, p_audio_instance, can_bus,
                   current_rpm, last_played_audio_file, audio_playback_thread,
                   current_sim_rpm, rpm_sim_direction, active_thread_to_join,
                   threads, last_tick, feed>>

\* lines 1107-1112: p_audio_instance.terminate()
CleanupTerminate ==
    /\ main_pc = "terminate"
    /\ p_audio_instance' = IF p_audio_instance = "live" THEN "terminated"
                           ELSE p_audio_instance
    /\ main_pc' = "bus_shutdown"
    /\ UNCHANGED <<shifter_vars, harness_vars, audio_files, args, can_bus,
                   current_rpm, last_played_audio_file, audio_playback_thread,
                   current_sim_rpm, rpm_sim_direction, active_thread_to_join,
                   threads, last_tick, feed>>

\* lines 1116-1123: can_bus.shutdown(), and the process ends
CleanupExit ==
    /\ main_pc = "bus_shutdown"
    /\ can_bus' = IF can_bus = "up" THEN "shutdown" ELSE can_bus
    /\ main_pc' = "exited"
    /\ UNCHANGED <<shifter_vars, harness_vars, audio_files, args, p_audio_instance,
                   current_rpm, last_played_audio_file, audio_playback_thread,
                   current_sim_rpm, rpm_sim_direction, active_thread_to_join,
                   threads, last_tick, feed>>

(***************************************************************************)
(* The state at the loop's entry (lines 766-955), for the outcomes of the  *)
(* start-up: live CAN or test mode, audio opened or disabled.              *)
(***************************************************************************)
SimMinRpm == 2950      \* --min-rpm of the simulated runs
SimSpan == 100         \* their --max-rpm lies this far above

LiveArgs ==
    [test_mode : {FALSE}, no_audio : BOOLEAN,
     min_rpm : MinRpms, max_rpm : {MaxRpmDefault},
     rpm_can_id : {TargetId}, rpm_byte_index : {0},
     rpm_scale_factor : {ScaleDen}, rpm_offset : {0}]

SimArgs ==
    [test_mode : {TRUE}, no_audio : BOOLEAN,
     min_rpm : {SimMinRpm}, max_rpm : {SimMinRpm + SimSpan},
     rpm_can_id : {TargetId}, rpm_byte_index : {0},
     rpm_scale_factor : {ScaleDen}, rpm_offset : {0}]

MainListings == {{F_mid, F_high}}

\* the frames on the bus: RPM 3100 and 6200 at byte 0, an empty payload,
\* and a frame of another id
BusPayloads == {<<28, 12>>, <<56, 24>>, <<>>}

BusFrames ==
    [arbitration_id : {TargetId}, data : BusPayloads]
        \cup {[arbitration_id |-> OtherId, data |-> <<56, 24>>]}

RecvOutcomes == {Timeout, CanError} \cup {Received(m) : m \in BusFrames}

LoopEntry(a, listing) ==
    /\ args = a
    /\ audio_files = load_audio_files(Some(listing))
    /\ DOMAIN audio_files # {}
    /\ p_audio_instance \in {"live", "none"}
    /\ p_audio_instance = "none" => a.no_audio
    /\ can_bus = IF a.test_mode THEN "none" ELSE "up"
    /\ current_rpm = 0
    /\ last_played_audio_file = NoFile
    /\ audio_playback_thread = NoThread
    /\ current_sim_rpm = a.min_rpm
    /\ rpm_sim_direction = 1
    /\ main_pc = "loop"
    /\ active_thread_to_join = NoThread
    /\ threads = [t \in ThreadIds |-> Unborn]
    /\ last_tick = "none"

Init ==
    /\ HarnessParked
    /\ ShifterParked
    /\ \E a \in LiveArgs, listing \in MainListings : LoopEntry(a, listing)
    /\ feed = <<>>

\* an iteration on the live bus
LiveTick ==
    /\ ~args.test_mode
    /\ \E rx \in RecvOutcomes : MainLoopTick(rx, RandLow)
    /\ UNCHANGED feed

Next ==
    \/ LiveTick
    \/ PlaybackThread
    \/ EnterFinally
    \/ CleanupJoin
    \/ CleanupTerminate
    \/ CleanupExit

Spec == Init /\ [][Next]_vars

(***************************************************************************)
(* Properties of the live loop and its playback threads, under Spec.       *)
(***************************************************************************)
\* the frames get_rpm_from_can_message takes no RPM from
NoSample(m) ==
    get_rpm_from_can_message(m, args.rpm_can_id, args.rpm_byte_index,
                             args.rpm_scale_factor, args.rpm_offset) = NoValue

\* recv outcomes with no RPM: nothing before the timeout, or another id
NoRpmOutcomes ==
    {Timeout} \cup {Received(m) : m \in {f \in BusFrames :
                                           f.arbitration_id # args.rpm_can_id}}

\* C3: on every tick in which no RPM is obtained (timeout, or a frame of
\* another id, which decodes to "no sample"), current_rpm,
\* last_played_audio_file and the active playback thread are left as they
\* were.
C3_NoRpmTickKeepsSelection ==
    [][\A rx \in NoRpmOutcomes :
          MainLoopTick(rx, RandLow) =>
              /\ rx.kind = "frame" => NoSample(rx.msg[1])
              /\ current_rpm' = current_rpm
              /\ last_played_audio_file' = last_played_audio_file
              /\ audio_playback_thread' = audio_playback_thread]_vars

\* C4: get_rpm_from_can_message returns a value or the failure value for
\* every frame, and a tick whose receive raised can.CanError or whose frame
\* did not decode keeps current_rpm and stays in the loop, where a further
\* iteration can run.
C4_FailuresKeepLoopRunning ==
    /\ [][last_tick' \in {"error", "undecoded"} =>
             /\ current_rpm' = current_rpm
             /\ main_pc' = "loop"]_vars
    /\ [](\A m \in BusFrames :
             LET rpm_value == get_rpm_from_can_message(m, args.rpm_can_id,
                                  args.rpm_byte_index, args.rpm_scale_factor,
                                  args.rpm_offset)
             IN  rpm_value = NoValue
                     \/ (Len(rpm_value) = 1 /\ rpm_value[1] \in Int))
    /\ [](main_pc = "loop" => ENABLED LiveTick)

\* a reading was taken, and then a target-id frame failed to decode
C4_Witness ==
    /\ main_pc = "loop"
    /\ last_tick = "undecoded"
    /\ current_rpm = 6200 * ScaleDen
    /\ last_played_audio_file = F_high

\* a playback thread is created in the step
ThreadStarted ==
    \E t \in ThreadIds : threads[t].pc = "unborn" /\ threads'[t].pc = "start"

\* C6: an iteration whose RPM maps to the asset already selected leaves the
\* selection as it is and starts no thread; the selection changes only in
\* an iteration whose RPM maps to something else; and a thread is started
\* only in an iteration whose RPM maps to an asset other than the selected
\* one, which becomes the selection.
C6_SelectionChangesOnlyOnCrossing ==
    [][\E target \in {get_audio_file_for_rpm(current_rpm', audio_files,
                                             args.min_rpm, args.max_rpm)} :
          /\ target = last_played_audio_file =>
                /\ last_played_audio_file' = last_played_audio_file
                /\ ~ThreadStarted
          /\ last_played_audio_file' # last_played_audio_file =>
                /\ target # last_played_audio_file
                /\ last_tick' \in {"rpm", "timeout", "mismatch", "undecoded"}
          /\ ThreadStarted =>
                /\ target # NoFile
                /\ target # last_played_audio_file
                /\ last_played_audio_file' = target
                /\ audio_playback_thread' # audio_playback_thread
                /\ threads'[audio_playback_thread'].wav_path = target]_vars

\* the 6000 RPM asset was selected by a reading, a later tick without a
\* reading maps to it again, and its one thread is still the only one
C6_Witness ==
    /\ main_pc = "loop"
    /\ last_tick = "timeout"
    /\ current_rpm = 6200 * ScaleDen
    /\ last_played_audio_file = F_high
    /\ audio_playback_thread # NoThread
    /\ \A t \in ThreadIds : is_alive(t) <=> t = audio_playback_thread

\* C9: a playback thread that is no longer the active one writes at most
\* one more chunk, the one it was about to write when it was replaced, and
\* does not pass the active-thread test again.
C9_SupersededWritesAtMostOneChunk ==
    \A t \in ThreadIds :
        /\ threads[t].late <= 1
        /\ threads[t].pc = "write" => threads[t].late = 0

\* a thread replaced by a live successor has written its one late chunk
C9_Witness ==
    \E t \in ThreadIds :
        /\ threads[t].late = 1
        /\ threads[t].pc = "loop"
        /\ is_alive(audio_playback_thread)
        /\ audio_playback_thread # t

\* one step of playback thread t
ThreadStep(t) ==
    \/ ThreadOpen(t)
    \/ ThreadLoop(t)
    \/ ThreadWrite(t)
    \/ ThreadFinally(t)
    \/ ThreadClearSet(t)

\* C11: in the loop every receive outcome lets the iteration run to its end
\* whatever the playback threads are doing (short of the slot bound), every
\* playback thread alive can take its next step whatever the main thread is
\* doing, and the shutdown steps, the bounded join among them, can be taken.
C11_NeitherDutyWaits ==
    /\ main_pc = "loop" =>
          \A rx \in RecvOutcomes :
              (\E t \in ThreadIds : threads[t].pc = "unborn") =>
                  ENABLED (MainLoopTick(rx, RandLow) /\ UNCHANGED feed)
    /\ \A t \in ThreadIds :
          (threads[t].pc # "unborn" /\ main_pc # "exited") => ENABLED ThreadStep(t)
    /\ main_pc \in {"join", "terminate", "bus_shutdown"} =>
          ENABLED (CleanupJoin \/ CleanupTerminate \/ CleanupExit)

\* the loop runs while a replaced thread is about to write and its
\* successor is in its own loop
C11_Witness ==
    /\ main_pc = "loop"
    /\ is_alive(audio_playback_thread)
    /\ threads[audio_playback_thread].pc = "loop"
    /\ \E t \in ThreadIds :
          /\ t # audio_playback_thread
          /\ threads[t].pc = "write"

\* C12: audio_playback_thread changes only in a step of the main thread: an
\* iteration that starts a thread, or the entry into the finally block.
C12_HandleWrittenOnlyByControlLoop ==
    [][audio_playback_thread' # audio_playback_thread =>
          ThreadStarted \/ main_pc' # main_pc]_vars

\* a step of a playback thread that uses its stream: a write, or the
\* stop_stream and close of the finally block
UsesStream(t) ==
    /\ threads[t].stream = "open"
    /\ threads[t].pc \in {"write", "finally"}
    /\ threads'[t] # threads[t]

\* C14: once p_audio_instance.terminate() has run, no playback thread
\* writes to its stream or stops and closes it.
C14_NoStreamUseAfterTerminate ==
    [][p_audio_instance = "terminated" =>
          \A t \in ThreadIds : ~UsesStream(t)]_vars

\* the same program started in (or fallen back to) test mode
InitSim ==
    /\ HarnessParked
    /\ ShifterParked
    /\ \E a \in SimArgs, listing \in MainListings : LoopEntry(a, listing)
    /\ feed = <<>>

SimTick ==
    /\ args.test_mode
    /\ \E step \in SimSteps : MainLoopTick(Timeout, step)
    /\ UNCHANGED feed

NextSim ==
    \/ SimTick
    \/ PlaybackThread
    \/ EnterFinally
    \/ CleanupJoin
    \/ CleanupTerminate
    \/ CleanupExit

SpecSim == InitSim /\ [][NextSim]_vars

\* a tick of the simulated walk: each one changes the value or the direction
WalkTicks ==
    <<current_sim_rpm, rpm_sim_direction>>' # <<current_sim_rpm, rpm_sim_direction>>

\* the tick adds rpm_sim_direction * step for some step of randint(20, 100),
\* reverses exactly when that sum lies beyond a bound, and then stops at
\* that bound
WalkStepsAndClamps ==
    \E step \in RandLow .. RandHigh :
       \E raw \in {current_sim_rpm + rpm_sim_direction * step} :
          /\ rpm_sim_direction' # rpm_sim_direction <=>
                 (raw > args.max_rpm \/ raw < args.min_rpm)
          /\ current_sim_rpm' = IF raw > args.max_rpm THEN args.max_rpm
                                ELSE IF raw < args.min_rpm THEN args.min_rpm
                                ELSE raw

\* the value has moved in the direction the walk had
MovesStrictly ==
    IF rpm_sim_direction = 1 THEN current_sim_rpm' > current_sim_rpm
    ELSE current_sim_rpm' < current_sim_rpm

\* the value already stood at the bound the walk was heading for
AtBoundAhead ==
    current_sim_rpm = IF rpm_sim_direction = 1 THEN args.max_rpm ELSE args.min_rpm

SimRpmInRange ==
    /\ args.min_rpm <= current_sim_rpm /\ current_sim_rpm <= args.max_rpm
    /\ rpm_sim_direction \in {1, -1}
    /\ last_tick = "sim" => current_rpm = current_sim_rpm * ScaleDen

\* C19 as stated: the simulated RPM stays within [min_rpm, max_rpm]; every
\* tick moves it strictly in the current direction; the direction reverses
\* exactly on a tick whose step would pass a bound, the value being then
\* that bound.
C19_WalkMovesEveryTick ==
    /\ []SimRpmInRange
    /\ [][WalkTicks => WalkStepsAndClamps /\ MovesStrictly]_vars

\* C19: the simulated RPM stays within [min_rpm, max_rpm]; the direction
\* reverses exactly on a tick whose step would pass a bound, the value being
\* then that bound; a tick moves the value strictly in the current direction
\* unless the value already stood at the bound ahead, and then it stays
\* there and the direction reverses.
C19_WalkBoundedAndReversing ==
    /\ []SimRpmInRange
    /\ [][WalkTicks =>
             /\ WalkStepsAndClamps
             /\ IF AtBoundAhead
                THEN /\ current_sim_rpm' = current_sim_rpm
                     /\ rpm_sim_direction' = -rpm_sim_direction
                ELSE MovesStrictly]_vars

\* the walk has been up to max_rpm, has come back and was stopped at min_rpm
C19_Witness ==
    /\ main_pc = "loop"
    /\ last_tick = "sim"
    /\ current_sim_rpm = args.min_rpm
    /\ rpm_sim_direction = 1
    /\ current_rpm = args.min_rpm * ScaleDen

(***************************************************************************)
(* The start-up of dmuffler_pi.py (lines 783-955) followed by the loop,    *)
(* for a run started with neither --test-mode nor --no-audio: PyAudio is   *)
(* constructed, the audio output is opened, the CAN interface is brought   *)
(* up, and each of these can fail.                                         *)
(***************************************************************************)
StartArgs ==
    [test_mode : {FALSE}, no_audio : {FALSE},
     min_rpm : {SimMinRpm}, max_rpm : {SimMinRpm + SimSpan},
     rpm_can_id : {TargetId}, rpm_byte_index : {0},
     rpm_scale_factor : {ScaleDen}, rpm_offset : {0}]

\* line 783: p_audio_instance = pyaudio.PyAudio(), outside any try; an
\* exception here ends the process
PyAudioInit ==
    /\ main_pc = "pyaudio"
    /\ \E raised \in BOOLEAN :
          IF raised
          THEN main_pc' = "exited" /\ UNCHANGED p_audio_instance
          ELSE main_pc' = "audio_init" /\ p_audio_instance' = "live"
    /\ UNCHANGED <<shifter_vars, harness_vars, audio_files, args, can_bus,
                   current_rpm, last_played_audio_file, audio_playback_thread,
                   current_sim_rpm, rpm_sim_direction, active_thread_to_join,
                   threads, last_tick, feed>>

\* what the try block of lines 788-856 meets: the stream opens; no DAC is
\* found and get_default_output_device_info raises IOError (lines 838-840);
\* or any call of the block, the open included, raises (lines 858-871)
AudioOutcomes == {"opened", "no_default_device", "open_failed"}

\* lines 787-875: args.no_audio and p_audio_instance after the block
audio_init(outcome, no_audio, instance) ==
    IF no_audio THEN [no_audio |-> TRUE, instance |-> "none"]
    ELSE IF outcome = "opened" THEN [no_audio |-> FALSE, instance |-> instance]
    ELSE IF outcome = "no_default_device"
         THEN [no_audio |-> TRUE, instance |-> instance]
    ELSE [no_audio |-> TRUE, instance |-> "none"]

AudioInit ==
    /\ main_pc = "audio_init"
    /\ \E outcome \in AudioOutcomes :
       \E r \in {audio_init(outcome, args.no_audio, p_audio_instance)} :
          /\ args' = [args EXCEPT !.no_audio = r.no_audio]
          /\ p_audio_instance' = r.instance
    /\ main_pc' = "can_init"
    /\ UNCHANGED <<shifter_vars, harness_vars, audio_files, can_bus,
                   current_rpm, last_played_audio_file, audio_playback_thread,
                   current_sim_rpm, rpm_sim_direction, active_thread_to_join,
                   threads, last_tick, feed>>

\* what the try block of lines 886-921 meets: the bus is constructed, or
\* `ip link` fails, python-can raises CanError, or anything else is raised
CanOutcomes == {"ok", "CalledProcessError", "CanError", "Exception"}

can_init_keep(outcome, test_mode) ==
    IF test_mode THEN [test_mode |-> TRUE, can_bus |-> "none"]
    ELSE IF outcome = "ok" THEN [test_mode |-> FALSE, can_bus |-> "up"]
    ELSE [test_mode |-> FALSE, can_bus |-> "none"]

\* lines 885-921: args.test_mode and can_bus after the block
can_init(outcome, test_mode) ==
    IF test_mode THEN [test_mode |-> TRUE, can_bus |-> "none"]
    ELSE IF outcome = "ok" THEN [test_mode |-> FALSE, can_bus |-> "up"]
    ELSE [test_mode |-> TRUE, can_bus |-> "none"]

\* lines 885-955: the CAN start-up, the exit of lines 925-931 when there is
\* neither a bus nor test mode, and the assignments before the loop
CanInit ==
    /\ main_pc = "can_init"
    /\ \E outcome \in CanOutcomes :
       \E r \in {can_init(outcome, args.test_mode)} :
          /\ args' = [args EXCEPT !.test_mode = r.test_mode]
          /\ can_bus' = r.can_bus
          /\ IF ~r.test_mode /\ r.can_bus = "none"
             THEN /\ p_audio_instance' = IF p_audio_instance = "live"
                                         THEN "terminated" ELSE p_audio_instance
                  /\ main_pc' = "exited"
                  /\ UNCHANGED <<current_rpm, last_played_audio_file,
                                 current_sim_rpm, rpm_sim_direction>>
             ELSE /\ current_rpm' = 0
                  /\ last_played_audio_file' = NoFile
                  /\ current_sim_rpm' = args.min_rpm
                  /\ rpm_sim_direction' = 1
                  /\ main_pc' = "loop"
                  /\ UNCHANGED p_audio_instance
    /\ UNCHANGED <<shifter_vars, harness_vars, audio_files, audio_playback_thread,
                   active_thread_to_join, threads, last_tick, feed>>

InitStartup ==
    /\ HarnessParked
    /\ ShifterParked
    /\ args \in StartArgs
    /\ \E listing \in MainListings :
          /\ audio_files = load_audio_files(Some(listing))
          /\ DOMAIN audio_files # {}
    /\ p_audio_instance = "none"
    /\ can_bus = "none"
    /\ current_rpm = 0
    /\ last_played_audio_file = NoFile
    /\ audio_playback_thread = NoThread
    /\ current_sim_rpm = 0
    /\ rpm_sim_direction = 1
    /\ main_pc = "pyaudio"
    /\ active_thread_to_join = NoThread
    /\ threads = [t \in ThreadIds |-> Unborn]
    /\ last_tick = "none"
    /\ feed = <<>>

NextStartup ==
    \/ PyAudioInit
    \/ AudioInit
    \/ CanInit
    \/ LiveTick
    \/ SimTick
    \/ PlaybackThread
    \/ EnterFinally
    \/ CleanupJoin
    \/ CleanupTerminate
    \/ CleanupExit

SpecStartup == InitStartup /\ [][NextStartup]_vars

\* C15: a run started without --test-mode leaves the CAN start-up for the
\* main loop whatever the start-up met, never for the exit; it is in test
\* mode there exactly when no bus was constructed; test mode is switched on
\* at that step only and never off; and in test mode every iteration can run
\* and takes current_rpm from the simulated walk.
C15_CanFailureFallsBackToTestMode ==
    /\ [][main_pc = "can_init" =>
             /\ main_pc' = "loop"
             /\ args'.test_mode <=> can_bus' = "none"]_vars
    /\ [][args'.test_mode # args.test_mode =>
             main_pc = "can_init" /\ args'.test_mode]_vars
    /\ [][last_tick' = "sim" =>
             /\ args.test_mode
             /\ current_rpm' = current_sim_rpm' * ScaleDen]_vars
    /\ [](main_pc = "loop" /\ args.test_mode => ENABLED SimTick)

\* the loop runs on the simulated walk after the fallback
C15_Witness ==
    /\ main_pc = "loop"
    /\ args.test_mode
    /\ can_bus = "none"
    /\ last_tick = "sim"
    /\ current_rpm > args.min_rpm * ScaleDen

\* C16: args.no_audio is switched on only by the audio start-up, which then
\* goes on to the CAN start-up; from then on no playback thread exists, no
\* file counts as played, and every iteration of the loop can run.
C16_AudioFailureDegrades ==
    /\ [][args'.no_audio # args.no_audio =>
             /\ main_pc = "audio_init"
             /\ main_pc' = "can_init"
             /\ args'.no_audio]_vars
    /\ [](args.no_audio =>
             /\ \A t \in ThreadIds : threads[t].pc = "unborn"
             /\ audio_playback_thread = NoThread
             /\ last_played_audio_file = NoFile)
    /\ [](main_pc = "loop" /\ args.no_audio => ENABLED (LiveTick \/ SimTick))

\* the default device could not be found: PyAudio is still there, and the
\* loop has read an RPM that selects a file
C16_Witness ==
    /\ main_pc = "loop"
    /\ args.no_audio
    /\ p_audio_instance = "live"
    /\ ~args.test_mode
    /\ last_tick = "rpm"
    /\ get_audio_file_for_rpm(current_rpm, audio_files, args.min_rpm, args.max_rpm) # NoFile

(***************************************************************************)
(* The loop fed a fixed sequence of frames: RPM 500, 2900, 3100, 5990,     *)
(* 6200 over the catalog 0 / 3000 / 6000.                                  *)
(***************************************************************************)
ScenarioListing == {F_idle, F_mid, F_high}

ScenarioFeed ==
    << [arbitration_id |-> TargetId, data |-> <<244, 1>>],
       [arbitration_id |-> TargetId, data |-> <<84, 11>>],
       [arbitration_id |-> TargetId, data |-> <<28, 12>>],
       [arbitration_id |-> TargetId, data |-> <<102, 23>>],
       [arbitration_id |-> TargetId, data |-> <<56, 24>>] >>

ScenarioRpm == <<500, 2900, 3100, 5990, 6200>>

ScenarioArgs ==
    [test_mode : {FALSE}, no_audio : {FALSE},
     min_rpm : {0, ScenarioRpm[1], MinRpmDefault}, max_rpm : {MaxRpmDefault},
     rpm_can_id : {TargetId}, rpm_byte_index : {0},
     rpm_scale_factor : {ScaleDen}, rpm_offset : {0}]

InitScenario ==
    /\ HarnessParked
    /\ ShifterParked
    /\ \E a \in ScenarioArgs : LoopEntry(a, ScenarioListing)
    /\ p_audio_instance = "live"
    /\ feed = ScenarioFeed

\* an iteration that receives the next frame of the sequence
ScenarioTick ==
    /\ feed # <<>>
    /\ MainLoopTick(Received(Head(feed)), RandLow)
    /\ feed' = Tail(feed)

NextScenario ==
    \/ ScenarioTick
    \/ PlaybackThread

SpecScenario == InitScenario /\ [][NextScenario]_vars

\* the ticks taken so far
Fed == Len(ScenarioFeed) - Len(feed)

ExpectedAssets == <<F_idle, F_idle, F_mid, F_mid, F_high>>

AudioLen == 3          \* len(self.audioTimeSeries)
MaxFrames == 2         \* largest `frames` of a callback

PitchMin == 100        \* 1.0
PitchMax == 200        \* 2.0
PitchStep == 2         \* 0.02

audioTimeSeries == [i \in 1 .. AudioLen |-> "pcm"]

Repeat(x, n) == [i \in 1 .. n |-> x]

no_pad(x, n) == x

\* np.pad(x, (0, n))
pad(x, n) == x \o Repeat("zero", n)

\* outdata[:] = value.reshape(-1, 1): the value has the buffer's length, or
\* is one sample broadcast over it; any other shape raises ValueError
CanAssign(outdata, value) == Len(value) = Len(outdata) \/ Len(value) = 1

assign(outdata, value) ==
    IF Len(value) = Len(outdata) THEN value ELSE Repeat(value[1], Len(outdata))

keep(outdata, x) == outdata

\* outdata.fill(0)
fill(outdata, x) == Repeat(x, Len(outdata))

\* a callback not in progress; `logged` tells that the except clause of
\* lines 131-134 ran in this call
Idle == [pc |-> "idle", frames |-> 0, chunk |-> <<>>, outdata |-> <<>>,
         shifted |-> NoValue, logged |-> FALSE]

\* sounddevice calls audio_callback(outdata, frames, time, status)
AudioCallbackInvoke ==
    /\ shifter_pc \notin {"parked", "done"}
    /\ shifter.stream = "active"
    /\ callback.pc = "idle"
    /\ \E frames \in 1 .. MaxFrames :
          callback' = [Idle EXCEPT !.pc = "test", !.frames = frames,
                                   !.outdata = Repeat("stale", frames)]
    /\ UNCHANGED <<harness_vars, audio_files, main_vars, shifter, shifter_pc>>

\* lines 113-115 and 137-140: the test of playing and currentFrame, the
\* slice, and the silence of the two else branches
AudioCallbackTest ==
    /\ callback.pc = "test"
    /\ IF shifter.playing /\ shifter.currentFrame < Len(audioTimeSeries)
       THEN \E chunk \in {Slice(audioTimeSeries, shifter.currentFrame,
                                shifter.currentFrame + callback.frames)} :
               callback' =
                  IF Len(chunk) > 0
                  THEN [callback EXCEPT !.pc = "shift", !.chunk = chunk]
                  ELSE [callback EXCEPT !.pc = "return",
                                        !.outdata = fill(@, "zero")]
       ELSE callback' = [callback EXCEPT !.pc = "return",
                                         !.outdata = fill(@, "zero")]
    /\ UNCHANGED <<harness_vars, audio_files, main_vars, shifter, shifter_pc>>

\* a position that stops at the end of the audio
advance_to_end(currentFrame, frames) == Min2(currentFrame + frames, AudioLen)

\* line 132: self.currentFrame += frames
advance(currentFrame, frames) == currentFrame + frames

\* lines 116-136: pitch_shift at the pitchFactor read now, pad or truncate,
\* copy into outdata and advance currentFrame; silence on any exception
AudioCallbackShift ==
    /\ callback.pc = "shift"
    /\ \E raised \in BOOLEAN, length \in 0 .. Len(callback.chunk) + 1 :
          IF raised
          THEN /\ callback' = [callback EXCEPT !.pc = "return", !.chunk = <<>>,
                                               !.logged = TRUE,
                                               !.outdata = fill(@, "zero")]
               /\ UNCHANGED shifter
          ELSE \E shifted_chunk \in {Repeat("pcm", length)} :
               \E processed_chunk \in
                      {IF Len(shifted_chunk) < callback.frames
                       THEN pad(shifted_chunk, callback.frames - Len(shifted_chunk))
                       ELSE Slice(shifted_chunk, 0, callback.frames)} :
                  IF CanAssign(callback.outdata, processed_chunk)
                  THEN /\ callback' =
                             [callback EXCEPT
                                 !.pc = "return", !.chunk = <<>>,
                                 !.shifted = Some(length),
                                 !.outdata = assign(@, processed_chunk)]
                       /\ shifter' = [shifter EXCEPT
                                         !.currentFrame = advance(@, callback.frames)]
                  ELSE /\ callback' =
                             [callback EXCEPT
                                 !.pc = "return", !.chunk = <<>>,
                                 !.shifted = Some(length),
                                 !.logged = TRUE,
                                 !.outdata = fill(@, "zero")]
                       /\ UNCHANGED shifter
    /\ UNCHANGED <<harness_vars, audio_files, main_vars, shifter_pc>>

\* the callback returns and sounddevice takes the buffer
AudioCallbackReturn ==
    /\ callback.pc = "return"
    /\ callback' = Idle
    /\ UNCHANGED <<harness_vars, audio_files, main_vars, shifter, shifter_pc>>

AudioCallbackStep ==
    \/ AudioCallbackTest
    \/ AudioCallbackShift
    \/ AudioCallbackReturn

Keys == {"w", "W", "a", "esc", "shift"}

\* keys with a printable character: key.char exists
HasChar(key) == key \in {"w", "W", "a"}

is_lower_w(key) == key = "w"

\* key.char.upper() == 'W'
IsW(key) == key \in {"w", "W"}

\* lines 142-153: the object after on_press(key); a key without a character
\* raises AttributeError at key.char, which the except clause takes
pressed(self, key) ==
    IF HasChar(key)
    THEN IF IsW(key) THEN [self EXCEPT !.isWPressed = TRUE] ELSE self
    ELSE IF key = "esc" THEN [self EXCEPT !.isEscPressed = TRUE] ELSE self

\* lines 155-165: the object after on_release(key)
released(self, key) ==
    IF HasChar(key) /\ IsW(key) THEN [self EXCEPT !.isWPressed = FALSE] ELSE self

\* the listener thread calls on_press
on_press(key) ==
    /\ shifter.listener = "started"
    /\ shifter' = pressed(shifter, key)
    /\ UNCHANGED <<harness_vars, audio_files, main_vars, callback, shifter_pc>>

\* the listener thread calls on_release
on_release(key) ==
    /\ shifter.listener = "started"
    /\ shifter' = released(shifter, key)
    /\ UNCHANGED <<harness_vars, audio_files, main_vars, callback, shifter_pc>>

KeyboardListener == \E key \in Keys : on_press(key) \/ on_release(key)

\* stream.stop() returns once the callback in progress has returned
cleanup_ready == shifter.stream = "active" => callback.pc = "idle"

cleanup_rewind(self, raised) ==
    [self EXCEPT !.stream = IF @ = "active"
                            THEN IF raised THEN "stopped" ELSE "closed"
                            ELSE @,
                 !.running = FALSE, !.currentFrame = 0]

cleanup_keeps_running(self, raised) ==
    [self EXCEPT !.stream = IF @ = "active"
                            THEN IF raised THEN "stopped" ELSE "closed"
                            ELSE @]

\* lines 96-106: cleanup().  An active stream is stopped and closed inside a
\* try whose except clause logs; `raised` tells that the close did not
\* complete, the stream being then stopped but not closed.  sounddevice's
\* stop() ends the stream's activity whether or not PortAudio reports an
\* error.
cleanup(self, raised) ==
    [self EXCEPT !.stream = IF @ = "active"
                            THEN IF raised THEN "stopped" ELSE "closed"
                            ELSE @,
                 !.running = FALSE]

\* lines 271-276: unit_test() of a running object, cleanup() of one whose
\* construction failed; lines 186-196: the listener starts and playing is set
UnitTestStart ==
    /\ shifter_pc = "main"
    /\ IF shifter.running
       THEN /\ shifter' = [shifter EXCEPT !.listener = "started", !.playing = TRUE]
            /\ shifter_pc' = "pedal"
       ELSE /\ cleanup_ready
            /\ \E raised \in BOOLEAN : shifter' = cleanup(shifter, raised)
            /\ shifter_pc' = "done"
    /\ UNCHANGED <<harness_vars, audio_files, main_vars, callback>>

step_pedal_no_floor(self) ==
    IF self.isWPressed
    THEN Min2(PitchMax, self.pitchFactor + PitchStep)
    ELSE self.pitchFactor - PitchStep

\* lines 170-174
step_pedal(self) ==
    IF self.isWPressed
    THEN Min2(PitchMax, self.pitchFactor + PitchStep)
    ELSE IF self.pitchFactor > PitchMin
         THEN IF PitchMin >= self.pitchFactor - PitchStep THEN PitchMin
              ELSE self.pitchFactor - PitchStep
         ELSE self.pitchFactor

\* the loop without the test of isEscPressed
pedal_ignores_esc ==
    /\ shifter_pc = "pedal"
    /\ IF ~shifter.running
       THEN /\ shifter_pc' = "finally"
            /\ UNCHANGED shifter
       ELSE /\ shifter' = [shifter EXCEPT !.pitchFactor = step_pedal(shifter)]
            /\ shifter_pc' = "pedal"
    /\ UNCHANGED <<harness_vars, audio_files, main_vars, callback>>

\* lines 169-180: one iteration of `while self.running`
simulate_gas_pedal ==
    /\ shifter_pc = "pedal"
    /\ IF ~shifter.running
       THEN /\ shifter_pc' = "finally"
            /\ UNCHANGED shifter
       ELSE /\ shifter' = [shifter EXCEPT
                              !.pitchFactor = step_pedal(shifter),
                              !.running = IF shifter.isEscPressed THEN FALSE ELSE @]
            /\ shifter_pc' = IF shifter.isEscPressed THEN "finally" ELSE "pedal"
    /\ UNCHANGED <<harness_vars, audio_files, main_vars, callback>>

\* lines 203-205: Ctrl+C during simulate_gas_pedal
UnitTestInterrupt ==
    /\ shifter_pc = "pedal"
    /\ shifter' = [shifter EXCEPT !.running = FALSE]
    /\ shifter_pc' = "finally"
    /\ UNCHANGED <<harness_vars, audio_files, main_vars, callback>>

\* lines 206-210: playing is cleared and the listener stopped
UnitTestFinally ==
    /\ shifter_pc = "finally"
    /\ shifter' = [shifter EXCEPT !.playing = FALSE, !.listener = "stopped"]
    /\ shifter_pc' = "cleanup"
    /\ UNCHANGED <<harness_vars, audio_files, main_vars, callback>>

\* line 211: self.cleanup()
UnitTestCleanup ==
    /\ shifter_pc = "cleanup"
    /\ cleanup_ready
    /\ \E raised \in BOOLEAN : shifter' = cleanup(shifter, raised)
    /\ shifter_pc' = "done"
    /\ UNCHANGED <<harness_vars, audio_files, main_vars, callback>>

\* what __init__ meets: librosa.load raises (lines 58-62), sd.OutputStream
\* raises (lines 76-83), stream.start() raises (lines 76-83), or all succeed
ConstructOutcomes == {"load_failed", "create_failed", "start_failed", "started"}

constructed_optimistic(outcome) ==
    [isWPressed |-> FALSE, isEscPressed |-> FALSE,
     running |-> outcome # "load_failed",
     stream |-> IF outcome = "started" THEN "active"
                ELSE IF outcome = "start_failed" THEN "closed" ELSE "none",
     loaded |-> outcome # "load_failed",
     playing |-> FALSE, currentFrame |-> 0, pitchFactor |-> PitchMin,
     listener |-> "none"]

\* lines 40-93: the object as __init__ leaves it.  `loaded` tells that
\* audioTimeSeries was set (line 57); a stream that was created but did not
\* start is closed again by lines 87-92.
Constructed(outcome) ==
    LET loaded == outcome # "load_failed"
        created == loaded /\ outcome # "create_failed"
        started == created /\ outcome # "start_failed"
        running == started
    IN  [isWPressed |-> FALSE, isEscPressed |-> FALSE,
         running |-> running,
         stream |-> IF ~created THEN "none"
                    ELSE IF ~running THEN "closed" ELSE "active",
         loaded |-> loaded,
         playing |-> FALSE, currentFrame |-> 0, pitchFactor |-> PitchMin,
         listener |-> "none"]

InitShifter ==
    /\ HarnessParked
    /\ MainParked
    /\ audio_files = <<>>
    /\ \E outcome \in ConstructOutcomes : shifter = Constructed(outcome)
    /\ callback = Idle
    /\ shifter_pc = "main"

NextShifter ==
    \/ AudioCallbackInvoke
    \/ AudioCallbackStep
    \/ KeyboardListener
    \/ UnitTestStart
    \/ simulate_gas_pedal
    \/ UnitTestInterrupt
    \/ UnitTestFinally
    \/ UnitTestCleanup

SpecShifter == InitShifter /\ [][NextShifter]_vars

\* what the buffer must hold when the callback returns
ExpectedBuffer ==
    IF callback.shifted = NoValue
    THEN Repeat("zero", callback.frames)
    ELSE [i \in 1 .. callback.frames |->
             IF i <= callback.shifted[1] THEN "pcm" ELSE "zero"]

\* C10: whatever the main thread and the listener do meanwhile, a callback
\* in progress can always take its next step, and it returns a buffer of
\* exactly `frames` frames: the shifted chunk followed by zeros when it is
\* shorter, its first `frames` samples when it is longer, zeros otherwise.
C10_CallbackFillsBuffer ==
    /\ callback.pc \in {"test", "shift", "return"} => ENABLED AudioCallbackStep
    /\ callback.pc = "return" =>
          /\ Len(callback.outdata) = callback.frames
          /\ callback.outdata = ExpectedBuffer

\* a callback that began while playing was set returns a padded chunk
\* after unit_test has cleared playing and the pedal has moved pitchFactor
C10_Witness ==
    /\ callback.pc = "return"
    /\ callback.frames = MaxFrames
    /\ callback.shifted = Some(1)
    /\ callback.outdata = <<"pcm">> \o Repeat("zero", MaxFrames - 1)
    /\ ~shifter.playing
    /\ shifter.pitchFactor > PitchMin

\* a step of the audio callback that advances the render position
CallbackAdvances == callback.pc = "shift" /\ callback'.pc = "return"

\* a step of unit_test on the main thread
UnitTestSteps == shifter_pc' # shifter_pc /\ callback' = callback

IMAGES_BASE_PATH == "static/images"
SOUNDS_BASE_PATH == "static/sounds"

CarAsset(name, image, sound) == [name |-> name, image |-> image, sound |-> sound]

CAR_ASSETS ==
    <<CarAsset("bmw_m4", <<IMAGES_BASE_PATH, "bmw_m4.png">>,
               <<SOUNDS_BASE_PATH, "bmw_m4.wav">>),
      CarAsset("mclaren_artura", <<IMAGES_BASE_PATH, "mclaren_artura.png">>,
               <<SOUNDS_BASE_PATH, "mclaren_f1.wav">>)>>

\* the keys of EngineSoundsDict, in order
EngineSoundsDict == <<"mclaren_f1.wav", "laferrari.wav">>

\* every path the catalog refers to
ReferencedAssets ==
    {CAR_ASSETS[i].image : i \in DOMAIN CAR_ASSETS}
        \cup {CAR_ASSETS[i].sound : i \in DOMAIN CAR_ASSETS}
        \cup {<<SOUNDS_BASE_PATH, EngineSoundsDict[i]>> : i \in DOMAIN EngineSoundsDict}

\* lines 99-104: the loop over CAR_ASSETS; `missing` are the entries
\* appended so far, `checked` the paths is_file() was asked about
RECURSIVE check_car_assets(_, _, _)
check_car_assets(assets, on_disk, acc) ==
    IF assets = <<>> THEN acc
    ELSE LET asset == Head(assets)
             image == IF asset.image \notin on_disk
                      THEN <<[label |-> <<asset.name, "image">>, path |-> asset.image]>>
                      ELSE <<>>
             sound == IF asset.sound \notin on_disk
                      THEN <<[label |-> <<asset.name, "sound">>, path |-> asset.sound]>>
                      ELSE <<>>
         IN  check_car_assets(Tail(assets), on_disk,
                 [missing |-> acc.missing \o image \o sound,
                  checked |-> acc.checked \cup {asset.image, asset.sound}])

\* lines 108-114: the loop over EngineSoundsDict.keys()
RECURSIVE check_dict_sounds(_, _, _, _)
check_dict_sounds(keys, car_asset_sound_paths, on_disk, acc) ==
    IF keys = <<>> THEN acc
    ELSE LET dict_sound_path == <<SOUNDS_BASE_PATH, Head(keys)>>
         IN  check_dict_sounds(Tail(keys), car_asset_sound_paths, on_disk,
                 IF dict_sound_path \notin car_asset_sound_paths
                 THEN [missing |-> acc.missing \o
                          (IF dict_sound_path \notin on_disk
                           THEN << [label |-> <<"EngineSoundsDict", "sound">>,
                                    path |-> dict_sound_path] >>
                           ELSE <<>>),
                       checked |-> acc.checked \cup {dict_sound_path}]
                 ELSE acc)

\* lines 91-119: returns None, or raises FileNotFoundError whose message
\* lists, for each entry of missing_assets, the part after ": " relative to
\* the project root
validate_assets(on_disk) ==
    LET cars == check_car_assets(CAR_ASSETS, on_disk,
                                 [missing |-> <<>>, checked |-> {}])
        car_asset_sound_paths == {CAR_ASSETS[i].sound : i \in DOMAIN CAR_ASSETS}
        all == check_dict_sounds(EngineSoundsDict, car_asset_sound_paths,
                                 on_disk, cars)
    IN  [raised |-> all.missing # <<>>,
         missing_relative_paths |->
            [i \in DOMAIN all.missing |-> all.missing[i].path],
         checked |-> all.checked]

\* --mode takes one or more of these (nargs='+', required)
Modes == {"DEV", "TESTING", "PRODUCTION"}

\* the command lines: any non-empty choice of modes, or no --mode at all
ModeArgs == SUBSET Modes

NotValidated == [raised |-> FALSE, missing_relative_paths |-> <<>>, checked |-> {}]

InitMainPy ==
    /\ call \in [op : {"Main.py"}, on_disk : SUBSET ReferencedAssets, mode : ModeArgs]
    /\ ret = [stage |-> "called",
              value |-> [validation |-> NotValidated, reported |-> FALSE,
                         databases |-> {}, handler |-> "none"]]
    /\ audio_files = <<>>
    /\ MainParked
    /\ ShifterParked

\* lines 84-91: validate_assets() inside try; FileNotFoundError is caught
\* and printed, and the script goes on
MainValidateAssets ==
    /\ call.op = "Main.py"
    /\ ret.stage = "called"
    /\ \E r \in {validate_assets(call.on_disk)} :
          ret' = [ret EXCEPT !.stage = "validated",
                             !.value.validation = r,
                             !.value.reported = r.raised]
    /\ UNCHANGED <<shifter_vars, call, audio_files, main_vars>>

\* lines 93-98: parse_args() exits when --mode is absent
MainParseArgs ==
    /\ call.op = "Main.py"
    /\ ret.stage = "validated"
    /\ ret' = [ret EXCEPT !.stage = IF call.mode = {} THEN "exited" ELSE "parsed"]
    /\ UNCHANGED <<shifter_vars, call, audio_files, main_vars>>

\* lines 100-104: Database("DMufflerLocalDev.db"), Database("DMufflerDatabase.db")
MainOpenDatabases ==
    /\ call.op = "Main.py"
    /\ ret.stage = "parsed"
    /\ ret' = [ret EXCEPT !.stage = "databases",
                          !.value.databases = {"DMufflerLocalDev.db", "DMufflerDatabase.db"}]
    /\ UNCHANGED <<shifter_vars, call, audio_files, main_vars>>

\* lines 106-126: the if / elif chain over args.mode
mode_handler(mode) ==
    IF "DEV" \in mode THEN "dev"
    ELSE IF "TESTING" \in mode THEN "integration_test"
    ELSE "main"

MainRunMode ==
    /\ call.op = "Main.py"
    /\ ret.stage = "databases"
    /\ ret' = [ret EXCEPT !.stage = "running", !.value.handler = mode_handler(call.mode)]
    /\ UNCHANGED <<shifter_vars, call, audio_files, main_vars>>

\* the handler returns and the script ends
MainExit ==
    /\ call.op = "Main.py"
    /\ ret.stage = "running"
    /\ ret' = [ret EXCEPT !.stage = "exited"]
    /\ UNCHANGED <<shifter_vars, call, audio_files, main_vars>>

NextMainPy ==
    \/ MainValidateAssets
    \/ MainParseArgs
    \/ MainOpenDatabases
    \/ MainRunMode
    \/ MainExit

SpecMainPy == InitMainPy /\ [][NextMainPy]_vars

\* the elements of a sequence
Range(seq) == {seq[i] : i \in DOMAIN seq}

\* C17: once validation has run with some referenced asset missing on disk,
\* it has asked about every referenced asset and raised an error naming
\* exactly the missing ones, and from then on no database is opened and no
\* mode handler is run.
C17_MissingAssetStopsStartup ==
    (ret.stage # "called" /\ ReferencedAssets \ call.on_disk # {}) =>
        /\ ret.value.validation.checked = ReferencedAssets
        /\ ret.value.validation.raised
        /\ Range(ret.value.validation.missing_relative_paths)
               = ReferencedAssets \ call.on_disk
        /\ ret.value.databases = {}
        /\ ret.value.handler = "none"
        /\ ret.stage # "running"

\* C18: every outcome of the pitch-shift and copy step, an exception in
\* pitch_shift, np.pad or the assignment included, leaves the callback at
\* its return; a call whose except clause ran returns a buffer of `frames`
\* zeros; and a callback at its return can always return.
C18_CallbackErrorsBecomeSilence ==
    /\ [][callback.pc = "shift" /\ callback' # callback =>
             callback'.pc = "return"]_vars
    /\ [](callback.logged =>
             /\ callback.pc = "return"
             /\ callback.outdata = Repeat("zero", callback.frames))
    /\ [](callback.pc = "return" => ENABLED AudioCallbackReturn)

\* the except clause ran for a full buffer while the clip was playing
C18_Witness ==
    /\ callback.pc = "return"
    /\ callback.logged
    /\ callback.frames = MaxFrames
    /\ callback.outdata = Repeat("zero", MaxFrames)
    /\ shifter.playing
    /\ shifter.currentFrame < Len(audioTimeSeries)

\* C20: pitchFactor always lies between 1.0 and 2.0 (PitchMin and PitchMax,
\* in hundredths); it changes in an iteration of the gas-pedal loop only;
\* and an iteration of the running loop raises it by one step, or to 2.0 if
\* that is nearer, while W is held, and lowers it by one step, or to 1.0 if
\* that is nearer, while W is released.
C20_PitchFactorStaysInRange ==
    /\ [](PitchMin <= shifter.pitchFactor /\ shifter.pitchFactor <= PitchMax)
    /\ [][shifter'.pitchFactor # shifter.pitchFactor => simulate_gas_pedal]_vars
    /\ [][simulate_gas_pedal /\ shifter.running =>
             shifter'.pitchFactor =
                IF shifter.isWPressed
                THEN IF shifter.pitchFactor + PitchStep > PitchMax
                     THEN PitchMax ELSE shifter.pitchFactor + PitchStep
                ELSE IF shifter.pitchFactor - PitchStep < PitchMin
                     THEN PitchMin ELSE shifter.pitchFactor - PitchStep]_vars

\* W was held until pitchFactor reached 2.0 and has just been released
C20_Witness ==
    /\ shifter_pc = "pedal"
    /\ shifter.running
    /\ shifter.pitchFactor = PitchMax
    /\ ~shifter.isWPressed

\* C21: as long as the main program has not gone past the construction,
\* running holds exactly when the audio was loaded and the stream exists and
\* is active, and playing = False, currentFrame = 0, pitchFactor = 1.0; at
\* any time, an object whose load failed has no stream, and every stream is
\* one of none, active, stopped, closed.
C21_ConstructorOutcomes ==
    /\ shifter_pc = "main" =>
          /\ shifter.running <=> (shifter.loaded /\ shifter.stream = "active")
          /\ ~shifter.running => shifter.stream \in {"none", "closed"}
          /\ ~shifter.playing
          /\ shifter.currentFrame = 0
          /\ shifter.pitchFactor = PitchMin
    /\ ~shifter.loaded => shifter.stream = "none"
    /\ shifter.stream \in {"none", "active", "stopped", "closed"}

\* the stream was created and did not start: it exists, closed, and the
\* object is not running
C21_Witness ==
    /\ shifter_pc = "main"
    /\ shifter.loaded
    /\ shifter.stream = "closed"
    /\ ~shifter.running
    /\ callback = Idle

(***************************************************************************)
(* cleanup() called repeatedly on an EngineSoundPitchShifter in any state  *)
(* its fields can take: the stream never created, created and closed or   *)
(* stopped, or active.  ret.value counts the calls and the stop() and      *)
(* close() calls they made.                                                *)
(***************************************************************************)
MaxCleanupCalls == 2

ShifterObjects ==
    {o \in [isWPressed : BOOLEAN, isEscPressed : BOOLEAN, running : BOOLEAN,
            stream : {"none", "active", "stopped", "closed"},
            loaded : BOOLEAN, playing : BOOLEAN,
            currentFrame : {0, AudioLen}, pitchFactor : {PitchMin, PitchMax},
            listener : {"none"}] :
        o.stream # "none" => o.loaded}

InitCleanup ==
    /\ call = [op |-> "cleanup"]
    /\ ret = [stage |-> "called", value |-> [calls |-> 0, stops |-> 0, closes |-> 0]]
    /\ audio_files = <<>>
    /\ MainParked
    /\ shifter \in ShifterObjects
    /\ callback = Idle
    /\ shifter_pc = "cleanup"

\* lines 96-106, called from outside unit_test
CleanupCall ==
    /\ call.op = "cleanup"
    /\ ret.value.calls < MaxCleanupCalls
    /\ cleanup_ready
    /\ \E raised \in BOOLEAN :
          /\ shifter' = cleanup(shifter, raised)
          /\ ret' = [stage |-> "returned",
                     value |-> [calls |-> ret.value.calls + 1,
                                stops |-> ret.value.stops
                                   + (IF shifter.stream = "active" THEN 1 ELSE 0),
                                closes |-> ret.value.closes
                                   + (IF shifter.stream = "active" /\ ~raised
                                      THEN 1 ELSE 0)]]
    /\ UNCHANGED <<call, audio_files, main_vars, callback, shifter_pc>>

NextCleanup == CleanupCall

SpecCleanup == InitCleanup /\ [][NextCleanup]_vars

MaxKeyEvents == 3

KeyEvents == [kind : {"press", "release"}, key : Keys]

InitKeys ==
    /\ call \in [op : {"key_events"}, events : SeqsUpTo(KeyEvents, MaxKeyEvents)]
    /\ ret = [stage |-> "called", value |-> 0]
    /\ audio_files = <<>>
    /\ MainParked
    /\ shifter = [Constructed("started") EXCEPT !.listener = "started"]
    /\ callback = Idle
    /\ shifter_pc = "keys"

\* the listener delivers the next event
DeliverKeyEvent ==
    /\ call.op = "key_events"
    /\ ret.value < Len(call.events)
    /\ \E e \in {call.events[ret.value + 1]} :
          shifter' = IF e.kind = "press" THEN pressed(shifter, e.key)
                     ELSE released(shifter, e.key)
    /\ ret' = [stage |-> IF ret.value + 1 = Len(call.events)
                         THEN "returned" ELSE "called",
               value |-> ret.value + 1]
    /\ UNCHANGED <<call, audio_files, main_vars, callback, shifter_pc>>

NextKeys == DeliverKeyEvent

SpecKeys == InitKeys /\ [][NextKeys]_vars

\* the delivered events that concern the letter W, in either case
DeliveredW == {i \in 1 .. ret.value : call.events[i].key \in {"w", "W"}}

MaxSetCalls == 3

\* the filenames asked for: the keys of EngineSoundsDict and one that is not
SoundNames ==
    {EngineSoundsDict[i] : i \in DOMAIN EngineSoundsDict} \cup {"sound_not_in_dict.wav"}

\* what the try block of lines 105-119 meets: the file loads,
\* from_wave_file raises FileNotFoundError or something else, or a
\* statement after the assignments raises
LoadOutcomes == {"loaded", "FileNotFoundError", "Exception", "raised_after_assignment"}

\* GC.EngineSoundsDict[name]
EngineSoundId(name) ==
    (CHOOSE i \in DOMAIN EngineSoundsDict : EngineSoundsDict[i] = name) - 1

\* lines 30-32
NewGenerator ==
    [base_audio_filename |-> NoValue, engine_sound_wave_object |-> NoValue,
     engine_sound_id |-> NoValue]

no_revert(self, prev_filename, prev_wave_obj, prev_id) == self

\* a revert that leaves the wave object where it is
revert_keeps_wave_object(self, prev_filename, prev_wave_obj, prev_id) ==
    [self EXCEPT !.base_audio_filename = prev_filename,
                 !.engine_sound_id = prev_id]

\* lines 125-130: _revert_to_previous_sound
revert_to_previous_sound(self, prev_filename, prev_wave_obj, prev_id) ==
    [self EXCEPT !.base_audio_filename = prev_filename,
                 !.engine_sound_wave_object = prev_wave_obj,
                 !.engine_sound_id = prev_id]

\* lines 86-123; n identifies the wave object a successful load creates
set_engine_sound(self, new_sound_filename, outcome, n) ==
    LET previous_sound_filename == self.base_audio_filename
        previous_wave_object == self.engine_sound_wave_object
        previous_sound_id == self.engine_sound_id
        assigned == [base_audio_filename |-> Some(new_sound_filename),
                     engine_sound_wave_object |->
                        Some([file |-> new_sound_filename, load |-> n]),
                     engine_sound_id |-> Some(EngineSoundId(new_sound_filename))]
    IN  IF new_sound_filename \in {EngineSoundsDict[i] : i \in DOMAIN EngineSoundsDict}
        THEN IF outcome = "loaded" THEN assigned
             ELSE IF outcome = "raised_after_assignment"
             THEN revert_to_previous_sound(assigned, previous_sound_filename,
                                           previous_wave_object, previous_sound_id)
             ELSE revert_to_previous_sound(self, previous_sound_filename,
                                           previous_wave_object, previous_sound_id)
        ELSE self

InitGenerator ==
    /\ call = [op |-> "set_engine_sound", calls |-> 0, last |-> NoValue]
    /\ ret = [stage |-> "called", value |-> NewGenerator]
    /\ audio_files = <<>>
    /\ MainParked
    /\ ShifterParked

SetEngineSound ==
    /\ call.op = "set_engine_sound"
    /\ call.calls < MaxSetCalls
    /\ \E new_sound_filename \in SoundNames, outcome \in LoadOutcomes :
          /\ ret' = [stage |-> "returned",
                     value |-> set_engine_sound(ret.value, new_sound_filename,
                                                outcome, call.calls + 1)]
          /\ call' = [call EXCEPT
                         !.calls = @ + 1,
                         !.last = Some([new_sound_filename |-> new_sound_filename,
                                        outcome |-> outcome,
                                        before |-> ret.value])]
    /\ UNCHANGED <<shifter_vars, audio_files, main_vars>>

NextGenerator == SetEngineSound

SpecGenerator == InitGenerator /\ [][NextGenerator]_vars

\* the last call failed: the name is no key of EngineSoundsDict, or the load
\* did not complete
LastCallFailed ==
    /\ call.last # NoValue
    /\ \/ call.last[1].new_sound_filename = "sound_not_in_dict.wav"
       \/ call.last[1].outcome # "loaded"

\* C24: after a call of set_engine_sound that failed, base_audio_filename,
\* the wave object and engine_sound_id are what they were before the call;
\* after one that succeeded they are those of the new sound.
C24_FailedSetKeepsSound ==
    /\ LastCallFailed => ret.value = call.last[1].before
    /\ (call.last # NoValue /\ ~LastCallFailed) =>
          /\ ret.value.base_audio_filename = Some(call.last[1].new_sound_filename)
          /\ ret.value.engine_sound_wave_object # call.last[1].before.engine_sound_wave_object

\* a sound was loaded, and a second call for another sound of the
\* dictionary failed after the assignments
C24_Witness ==
    /\ call.calls = 2
    /\ call.last[1].outcome = "raised_after_assignment"
    /\ call.last[1].new_sound_filename = "laferrari.wav"
    /\ ret.value.base_audio_filename = Some("mclaren_f1.wav")
    /\ ret.value.engine_sound_id = Some(0)

(***************************************************************************)
(* BluetoothConnector.py: connect_with_retry(dev, addr_type, retries,      *)
(* delay).  ret.value holds the loop variable `attempt`, the number of     *)
(* Peripheral(...) calls made, the number of time.sleep(delay) calls and   *)
(* the seconds slept, and the peripheral returned.                         *)
(***************************************************************************)
MaxRetries == 4
MaxDelay == 2

\* what Peripheral(dev.addr, addr_type) does: it returns the connection,
\* raises BTLEException, or raises something the function does not catch
AttemptOutcomes == {"connected", "BTLEException", "other_exception"}

always_sleep(attempt, retries) == TRUE

\* line 89: if attempt < retries - 1
retry_follows(attempt, retries) == attempt < retries - 1

InitConnect ==
    /\ call \in [op : {"connect_with_retry"}, retries : 0 .. MaxRetries,
                  delay : 0 .. MaxDelay]
    /\ ret = [stage |-> "loop",
              value |-> [attempt |-> 0, attempts |-> 0, sleeps |-> 0, slept |-> 0,
                         peripheral |-> NoValue]]
    /\ audio_files = <<>>
    /\ MainParked
    /\ ShifterParked

\* lines 82-88 and 93: the try of one iteration of `for attempt in
\* range(retries)`, up to the test of line 89
ConnectAttempt ==
    /\ call.op = "connect_with_retry"
    /\ ret.stage = "loop"
    /\ ret.value.attempt < call.retries
    /\ \E outcome \in AttemptOutcomes :
          ret' = IF outcome = "connected"
                 THEN [stage |-> "returned",
                       value |-> [ret.value EXCEPT
                                     !.attempts = @ + 1,
                                     !.peripheral = Some([attempt |-> ret.value.attempt + 1])]]
                 ELSE IF outcome = "other_exception"
                 THEN [stage |-> "raised",
                       value |-> [ret.value EXCEPT !.attempts = @ + 1]]
                 ELSE IF retry_follows(ret.value.attempt, call.retries)
                 THEN [stage |-> "sleep",
                       value |-> [ret.value EXCEPT !.attempts = @ + 1]]
                 ELSE [stage |-> "loop",
                       value |-> [ret.value EXCEPT !.attempts = @ + 1,
                                                   !.attempt = @ + 1]]
    /\ UNCHANGED <<shifter_vars, call, audio_files, main_vars>>

\* lines 90-91: time.sleep(delay), and on to the next iteration
ConnectSleep ==
    /\ call.op = "connect_with_retry"
    /\ ret.stage = "sleep"
    /\ ret' = [stage |-> "loop",
               value |-> [ret.value EXCEPT !.sleeps = @ + 1,
                                           !.slept = @ + call.delay,
                                           !.attempt = @ + 1]]
    /\ UNCHANGED <<shifter_vars, call, audio_files, main_vars>>

\* line 94: the loop is exhausted, return None
ConnectGiveUp ==
    /\ call.op = "connect_with_retry"
    /\ ret.stage = "loop"
    /\ ret.value.attempt >= call.retries
    /\ ret' = [ret EXCEPT !.stage = "returned"]
    /\ UNCHANGED <<shifter_vars, call, audio_files, main_vars>>

NextConnect == ConnectAttempt \/ ConnectSleep \/ ConnectGiveUp

SpecConnect == InitConnect /\ [][NextConnect]_vars

MaxPulls == 2

\* line 47
get_required_checks == {"test", "lint"}

CheckRuns == [name : get_required_checks, conclusion : {"success", "failure"}]

\* the open pull requests: the author, the combined status, the check
\* runs, what approving meets (a review of the bot exists, create_review
\* succeeds or raises GithubException) and whether the pull is mergeable
Pulls ==
    [login : {"dependabot[bot]", "octocat"},
     state : {"success", "failure"},
     check_runs : {{[name |-> "test", conclusion |-> "success"],
                    [name |-> "lint", conclusion |-> "success"]},
                   {[name |-> "test", conclusion |-> "success"],
                    [name |-> "lint", conclusion |-> "failure"]}},
     approval : {"approved_before", "created", "GithubException"},
     mergeable : BOOLEAN]

status_only(pr) == pr.state = "success"

\* lines 25-42
pr_has_passing_checks(pr) ==
    IF pr.state # "success" THEN FALSE
    ELSE \A check \in get_required_checks :
            \E run \in pr.check_runs : run.name = check /\ run.conclusion = "success"

approve_pr_always(pr) == TRUE

\* lines 51-64
approve_pr(pr) ==
    IF pr.approval = "approved_before" THEN TRUE
    ELSE pr.approval = "created"

\* lines 76-91
merge_pr(pr) == pr.mergeable

\* lines 20-22: the positions of the pulls main() goes through
get_dependabot_prs(pulls) ==
    {i \in DOMAIN pulls : pulls[i].login = "dependabot[bot]"}

InitApprover ==
    /\ call \in [op : {"approve_dependabot_prs"}, pulls : SeqsUpTo(Pulls, MaxPulls)]
    /\ ret = [stage |-> "checks", value |-> [i |-> 1, calls |-> <<>>]]
    /\ audio_files = <<>>
    /\ MainParked
    /\ ShifterParked

\* the pull at position i is not Dependabot's: the list of line 20 skips it
ApproverSkip ==
    /\ call.op = "approve_dependabot_prs"
    /\ ret.stage = "checks"
    /\ ret.value.i \in DOMAIN call.pulls
    /\ ret.value.i \notin get_dependabot_prs(call.pulls)
    /\ ret' = [ret EXCEPT !.value.i = @ + 1]
    /\ UNCHANGED <<shifter_vars, call, audio_files, main_vars>>

\* lines 100-104
ApproverChecks ==
    /\ call.op = "approve_dependabot_prs"
    /\ ret.stage = "checks"
    /\ ret.value.i \in get_dependabot_prs(call.pulls)
    /\ \E i \in {ret.value.i} :
          ret' = IF pr_has_passing_checks(call.pulls[i])
                 THEN [stage |-> "approve",
                       value |-> [i |-> i,
                                  calls |-> Append(ret.value.calls,
                                                   <<i, "pr_has_passing_checks">>)]]
                 ELSE [stage |-> "checks",
                       value |-> [i |-> i + 1,
                                  calls |-> Append(ret.value.calls,
                                                   <<i, "pr_has_passing_checks">>)]]
    /\ UNCHANGED <<shifter_vars, call, audio_files, main_vars>>

\* lines 106-109
ApproverApprove ==
    /\ call.op = "approve_dependabot_prs"
    /\ ret.stage = "approve"
    /\ \E i \in {ret.value.i} :
          ret' = IF approve_pr(call.pulls[i])
                 THEN [stage |-> "merge",
                       value |-> [i |-> i,
                                  calls |-> Append(ret.value.calls, <<i, "approve_pr">>)]]
                 ELSE [stage |-> "checks",
                       value |-> [i |-> i + 1,
                                  calls |-> Append(ret.value.calls, <<i, "approve_pr">>)]]
    /\ UNCHANGED <<shifter_vars, call, audio_files, main_vars>>

\* lines 111-115
ApproverMerge ==
    /\ call.op = "approve_dependabot_prs"
    /\ ret.stage = "merge"
    /\ \E i \in {ret.value.i} :
          ret' = [stage |-> "checks",
                  value |-> [i |-> i + 1,
                             calls |-> Append(ret.value.calls,
                                 <<i, IF merge_pr(call.pulls[i])
                                      THEN "merge_pr" ELSE "merge_pr_failed">>)]]
    /\ UNCHANGED <<shifter_vars, call, audio_files, main_vars>>

\* the list is exhausted and main() returns
ApproverDone ==
    /\ call.op = "approve_dependabot_prs"
    /\ ret.stage = "checks"
    /\ ret.value.i > Len(call.pulls)
    /\ ret' = [ret EXCEPT !.stage = "returned"]
    /\ UNCHANGED <<shifter_vars, call, audio_files, main_vars>>

NextApprover ==
    \/ ApproverSkip
    \/ ApproverChecks
    \/ ApproverApprove
    \/ ApproverMerge
    \/ ApproverDone

SpecApprover == InitApprover /\ [][NextApprover]_vars

\* the positions in ret.value.calls of the call `name` for pull i
CallsOf(i, name) ==
    {k \in DOMAIN ret.value.calls : ret.value.calls[k] = <<i, name>>}

\* the combined status of the pull is success and each required check has
\* a successful run
ChecksPass(pr) ==
    /\ pr.state = "success"
    /\ \E run \in pr.check_runs : run.name = "test" /\ run.conclusion = "success"
    /\ \E run \in pr.check_runs : run.name = "lint" /\ run.conclusion = "success"

\* C26: for every pull of the list, a merge is attempted only after its
\* checks were looked at and found passing and after its approval, made or
\* found, in that order; a pull whose checks do not pass is neither
\* approved nor merged; one whose approval raised is not merged; and a pull
\* that is not Dependabot's is not touched.
C26_MergeOnlyAfterChecksAndApproval ==
    \A i \in DOMAIN call.pulls :
        LET pr == call.pulls[i]
            merges == CallsOf(i, "merge_pr") \cup CallsOf(i, "merge_pr_failed")
        IN  /\ \A m \in merges :
                  /\ ChecksPass(pr)
                  /\ pr.approval # "GithubException"
                  /\ \E c \in CallsOf(i, "pr_has_passing_checks"),
                        a \in CallsOf(i, "approve_pr") : c < a /\ a < m
            /\ \A a \in CallsOf(i, "approve_pr") :
                  /\ ChecksPass(pr)
                  /\ \E c \in CallsOf(i, "pr_has_passing_checks") : c < a
            /\ pr.login # "dependabot[bot]" =>
                  \A k \in DOMAIN ret.value.calls : ret.value.calls[k][1] # i

\* two Dependabot pulls: the first failed its lint check, the second was
\* checked, approved and merged
C26_Witness ==
    /\ ret.stage = "returned"
    /\ Len(call.pulls) = 2
    /\ call.pulls[1].login = "dependabot[bot]"
    /\ call.pulls[1].state = "success"
    /\ ~ChecksPass(call.pulls[1])
    /\ ret.value.calls = <<<<1, "pr_has_passing_checks">>,
                           <<2, "pr_has_passing_checks">>,
                           <<2, "approve_pr">>, <<2, "merge_pr">>>>

(***************************************************************************)
(* The live loop on a bus whose RPM falls below --min-rpm: frames with RPM *)
(* 3100 and RPM 500 arrive in any order, --min-rpm is the default 1000.    *)
(***************************************************************************)
FloorArgs ==
    [test_mode : {FALSE}, no_audio : {FALSE},
     min_rpm : {MinRpmDefault}, max_rpm : {MaxRpmDefault},
     rpm_can_id : {TargetId}, rpm_byte_index : {0},
     rpm_scale_factor : {ScaleDen}, rpm_offset : {0}]

FloorFrames ==
    {[arbitration_id |-> TargetId, data |-> <<28, 12>>],
     [arbitration_id |-> TargetId, data |-> <<244, 1>>]}

InitFloor ==
    /\ HarnessParked
    /\ ShifterParked
    /\ \E a \in FloorArgs, listing \in MainListings : LoopEntry(a, listing)
    /\ p_audio_instance = "live"
    /\ feed = <<>>

FloorTick ==
    /\ \E m \in FloorFrames : MainLoopTick(Received(m), RandLow)
    /\ UNCHANGED feed

NextFloor ==
    \/ FloorTick
    \/ PlaybackThread

SpecFloor == InitFloor /\ [][NextFloor]_vars

\* the last RPM the loop took from the bus lies below --min-rpm
BelowFloor == main_pc = "loop" /\ current_rpm < args.min_rpm * ScaleDen

\* C27: while the RPM is below min_rpm no asset is selected, and a playback
\* thread that comes to the head of its loop goes on to no further write:
\* at most the chunk it was writing when the RPM fell is still played.
C27_FloorSuppressesPlayback ==
    [][BelowFloor /\ BelowFloor' =>
          /\ last_played_audio_file' = NoFile
          /\ \A t \in ThreadIds :
                threads[t].pc = "loop" => threads'[t].pc # "write"]_vars

(***************************************************************************)
(* The two playback engines, each run on its own: a behaviour is one of    *)
(* EngineSoundPitchShifter.py (SpecShifter) or one of the live loop of     *)
(* dmuffler_pi.py (Spec); the other program stays parked.                  *)
(***************************************************************************)
InitEngines == InitShifter \/ Init

ShifterEngine == shifter_pc # "parked" /\ NextShifter

BucketEngine == main_pc # "parked" /\ Next

NextEngines == ShifterEngine \/ BucketEngine

SpecEngines == InitEngines /\ [][NextEngines]_vars

\* the test of line 113 is made with currentFrame at or past the end
TestsPastEnd ==
    /\ callback.pc = "test"
    /\ callback'.pc # "test"
    /\ shifter.currentFrame >= Len(audioTimeSeries)

\* the main loop starts the thread t in this step
StartsThread(t) == threads[t].pc = "unborn" /\ threads'[t].pc = "start"

\* C28: the end of the asset is held in silence.  Pitch-shifting engine:
\* currentFrame never decreases, no callback is shifting a chunk once
\* currentFrame has reached the length of the audio, and a callback that
\* tests currentFrame from then on returns a buffer of zeros.  Bucket
\* engine: a playback thread is started only for a file other than
\* last_played_audio_file, so a clip that has ended is not played again
\* while the target stays the same.
C28_HoldSilenceNeverLoop ==
    [][/\ shifter_pc # "parked" =>
            /\ shifter'.currentFrame >= shifter.currentFrame
            /\ callback.pc = "shift" =>
                   shifter.currentFrame < Len(audioTimeSeries)
            /\ TestsPastEnd =>
                   /\ callback'.pc = "return"
                   /\ callback'.outdata = Repeat("zero", callback.frames)
                   /\ shifter' = shifter
       /\ main_pc # "parked" =>
            \A t \in ThreadIds :
                StartsThread(t) =>
                    /\ threads'[t].wav_path # last_played_audio_file
                    /\ threads'[t].wav_path = last_played_audio_file'
                    /\ \A u \in ThreadIds \ {t} : threads'[u] = threads[u]]_vars

\* the clip of the selected file has played to its end and its thread is
\* gone, and the loop has ticked on without a new RPM
C28_Witness ==
    /\ main_pc = "loop"
    /\ last_played_audio_file # NoFile
    /\ audio_playback_thread = NoThread
    /\ \A t \in ThreadIds : threads[t].pc = "unborn"
    /\ last_tick = "timeout"
    /\ get_audio_file_for_rpm(current_rpm, audio_files, args.min_rpm, args.max_rpm)
          = last_played_audio_file

(***************************************************************************)
(* The change of the selection while a clip is playing, under Spec.        *)
(***************************************************************************)
\* the chunks the thread t has read past: its frame offset in the clip
ChunksIn(t) == ClipChunks - threads[t].left

\* the iteration selects another asset
SelectionSwapped ==
    /\ last_played_audio_file' # last_played_audio_file
    /\ last_played_audio_file' # NoFile

\* C29: an iteration that changes the selection to another asset starts a
\* new playback thread for that asset and makes it the active one; the
\* thread has read nothing yet, and when it has opened its file it stands
\* at chunk zero of the clip, wherever the other threads stand in theirs.
C29_HotSwapStartsAtFrameZero ==
    [][/\ SelectionSwapped =>
            \E t \in ThreadIds :
                /\ threads[t].pc = "unborn"
                /\ threads'[t].pc = "start"
                /\ threads'[t].wav_path = last_played_audio_file'
                /\ threads'[t].left = 0
                /\ threads'[t].stream = "none"
                /\ audio_playback_thread' = t
                /\ \A u \in ThreadIds \ {t} : threads'[u] = threads[u]
       /\ \A t \in ThreadIds :
            threads[t].pc = "start" /\ threads'[t].pc = "loop" =>
                /\ threads'[t].left = ClipChunks
                /\ threads'[t].stream = "open"]_vars

\* the second clip stands at chunk zero while the first, replaced, is one
\* chunk into its own
C29_Witness ==
    /\ main_pc = "loop"
    /\ \E t, u \in ThreadIds :
          /\ t # u
          /\ audio_playback_thread = t
          /\ threads[t].pc = "loop"
          /\ ChunksIn(t) = 0
          /\ threads[u].pc \in {"loop", "write"}
          /\ ChunksIn(u) > 0
          /\ threads[u].left > 0

(***************************************************************************)
(* The stop of EngineSoundPitchShifter.py.  The main thread goes on        *)
(* running: an iteration of the pedal loop follows the sleep of 10 ms, and *)
(* the finally block follows the loop.  stream.stop() in cleanup() waits   *)
(* for the callback in progress and lets no further one begin, so          *)
(* cleanup() is taken however often callbacks come (strong fairness); a    *)
(* callback in progress runs to its return.                                *)
(***************************************************************************)
SpecShifterFair ==
    /\ SpecShifter
    /\ WF_vars(simulate_gas_pedal)
    /\ WF_vars(UnitTestFinally)
    /\ SF_vars(UnitTestCleanup)
    /\ WF_vars(AudioCallbackStep)

\* unit_test() has returned with everything released
Stopped ==
    /\ shifter_pc = "done"
    /\ ~shifter.running
    /\ ~shifter.playing
    /\ shifter.listener = "stopped"
    /\ shifter.stream # "active"

\* C30: an iteration of the pedal loop that finds isEscPressed set clears
\* running and leaves the loop, and so does a KeyboardInterrupt; past the
\* loop running stays False, and past the finally block's first lines
\* playing is False and the listener stopped; and once Esc is pressed
\* during the loop, or the loop is left, unit_test() ends with running and
\* playing False, the listener stopped and the stream no longer active.
C30_CooperativeStop ==
    /\ [][/\ simulate_gas_pedal /\ shifter.isEscPressed =>
                ~shifter'.running /\ shifter_pc' = "finally"
          /\ UnitTestInterrupt => ~shifter'.running /\ shifter_pc' = "finally"
          /\ shifter_pc \in {"finally", "cleanup"} => ~shifter.running
          /\ shifter_pc = "cleanup" =>
                ~shifter.playing /\ shifter.listener = "stopped"]_vars
    /\ (shifter_pc = "pedal" /\ shifter.isEscPressed) ~> Stopped
    /\ (shifter_pc = "finally") ~> Stopped

\* Esc was pressed during the loop and unit_test() has ended after at least
\* one callback rendered audio
C30_Witness ==
    /\ Stopped
    /\ shifter.isEscPressed
    /\ shifter.stream = "closed"
    /\ shifter.currentFrame > 0

(***************************************************************************)
(* Two EngineSoundPitchShifter objects in one process.  ret.value holds    *)
(* the two objects; a key event or an iteration of the pedal loop is       *)
(* delivered to one of them through its bound methods.                     *)
(***************************************************************************)
MaxDeliveries == 5

Instances == 1 .. 2

\* lines 169-180: the object after one iteration of `while self.running`
pedal_tick(self) ==
    IF ~self.running THEN self
    ELSE [self EXCEPT !.pitchFactor = step_pedal(self),
                      !.running = IF self.isEscPressed THEN FALSE ELSE @]

\* key flags kept at module level, as globals shared by every object
store_global(objects, i, new) ==
    [j \in DOMAIN objects |->
        IF j = i THEN new
        ELSE [objects[j] EXCEPT !.isWPressed = new.isWPressed,
                                !.isEscPressed = new.isEscPressed]]

\* lines 40-51, 145, 150, 158, 171-178: every attribute written is an
\* attribute of `self`
store_self(objects, i, new) == [objects EXCEPT ![i] = new]

InitInstances ==
    /\ call = [op |-> "instances", n |-> 0]
    /\ ret = [stage |-> "running",
              value |-> [i \in Instances |->
                            [Constructed("started") EXCEPT !.listener = "started",
                                                           !.playing = TRUE]]]
    /\ audio_files = <<>>
    /\ MainParked
    /\ ShifterParked

\* the listener of the object i calls its on_press or on_release
InstanceKey(i) ==
    /\ call.op = "instances"
    /\ call.n < MaxDeliveries
    /\ \E key \in Keys, kind \in {"press", "release"} :
          ret' = [ret EXCEPT !.value =
                     store_self(@, i, IF kind = "press"
                                      THEN pressed(ret.value[i], key)
                                      ELSE released(ret.value[i], key))]
    /\ call' = [call EXCEPT !.n = @ + 1]
    /\ UNCHANGED <<shifter_vars, audio_files, main_vars>>

\* the pedal loop of the object i makes one iteration
InstancePedal(i) ==
    /\ call.op = "instances"
    /\ call.n < MaxDeliveries
    /\ ret.value[i].running
    /\ ret' = [ret EXCEPT !.value = store_self(@, i, pedal_tick(ret.value[i]))]
    /\ call' = [call EXCEPT !.n = @ + 1]
    /\ UNCHANGED <<shifter_vars, audio_files, main_vars>>

NextInstances == \E i \in Instances : InstanceKey(i) \/ InstancePedal(i)

SpecInstances == InitInstances /\ [][NextInstances]_vars

\* the fields of the claim
KeyState(self) ==
    <<self.isWPressed, self.isEscPressed, self.pitchFactor, self.running>>

ClearsHandle(t) == threads[t].pc = "clear_set" /\ threads'[t].pc = "unborn"

\* C32: a thread that clears the handle at its exit is the thread the
\* handle designates, and the handle changes only when the main loop
\* designates a thread or ends, or when the designated thread itself
\* finishes.
C32_FinishingThreadKeepsNewerDesignation ==
    [][/\ \A t \in ThreadIds : ClearsHandle(t) => audio_playback_thread = t
       /\ audio_playback_thread' # audio_playback_thread =>
             \/ ThreadStarted
             \/ main_pc' # main_pc
             \/ \E t \in ThreadIds : ClearsHandle(t) /\ audio_playback_thread = t]_vars

\* the thread t holds an open stream or an open wave file
HoldsOpen(t) == threads[t].stream = "open" \/ threads[t].wf = "open"

\* C33: a playback thread that is past the closing code of its finally
\* block holds no open stream and no open wave file, and none holds one
\* when the process, and with it every daemon thread, has ended.
C33_StreamsClosedBeforeThreadEnds ==
    \A t \in ThreadIds :
        /\ threads[t].pc \in {"clear_set", "unborn"} => ~HoldsOpen(t)
        /\ main_pc = "exited" => ~HoldsOpen(t)

(***************************************************************************)
(* The source of the RPM at the loop, under SpecStartup.                   *)
(***************************************************************************)
\* C34: in the loop either test mode is set or the bus exists; the CAN
\* start-up never takes the exit of lines 925-931, and no iteration takes
\* the halt of lines 992-995 (the only way to main_pc = "cleanup").
C34_LoopHasBusOrTestMode ==
    /\ [](main_pc = "loop" => (args.test_mode \/ can_bus = "up"))
    /\ [](main_pc # "cleanup" /\ last_tick # "halt")
    /\ [][main_pc = "can_init" => main_pc' # "exited"]_vars
    /\ [][main_pc = "loop" => UNCHANGED <<can_bus, args>>]_vars

\* the bus came up, test mode is off and the loop has taken an RPM from it
C34_Witness ==
    /\ main_pc = "loop"
    /\ ~args.test_mode
    /\ ~args.no_audio
    /\ can_bus = "up"
    /\ last_tick = "rpm"

(***************************************************************************)
(* The fields of the generator taken together, under SpecGenerator.        *)
(***************************************************************************)
\* C35: after every call the generator either has no sound at all
\* (filename, wave object and id are None) or has a filename that is a key
\* of EngineSoundsDict, the id EngineSoundsDict gives for it and a wave
\* object loaded from that file.
C35_GeneratorFieldsConsistent ==
    LET g == ret.value
        keys == {EngineSoundsDict[i] : i \in DOMAIN EngineSoundsDict}
    IN  call.op = "set_engine_sound" =>
            \/ /\ g.base_audio_filename = NoValue
               /\ g.engine_sound_wave_object = NoValue
               /\ g.engine_sound_id = NoValue
            \/ /\ g.base_audio_filename # NoValue
               /\ g.base_audio_filename[1] \in keys
               /\ g.engine_sound_id = Some(EngineSoundId(g.base_audio_filename[1]))
               /\ g.engine_sound_wave_object # NoValue
               /\ g.engine_sound_wave_object[1].file = g.base_audio_filename[1]

\* a sound was loaded, and a later call for another sound raised after the
\* fields had been assigned
C35_Witness ==
    /\ call.op = "set_engine_sound"
    /\ call.last # NoValue
    /\ call.last[1].outcome = "raised_after_assignment"
    /\ call.last[1].before.base_audio_filename # NoValue
    /\ call.last[1].new_sound_filename \in
          {EngineSoundsDict[i] : i \in DOMAIN EngineSoundsDict}
    /\ Some(call.last[1].new_sound_filename) # call.last[1].before.base_audio_filename
    /\ ret.value.engine_sound_wave_object[1].load < call.calls

(***************************************************************************)
(* The render position over the callbacks, under SpecShifter.              *)
(***************************************************************************)
\* C36: currentFrame never decreases.  The step that copies a shifted
\* chunk into the buffer advances it by exactly the `frames` of the call,
\* also past the end of the audio; the step whose except clause ran, and
\* the step that finds playing cleared or the audio at its end, return
\* a buffer of zeros and leave it as it is, so that the next callback
\* slices from the same position; and no other step changes it.
C36_CurrentFrameAdvancesByFrames ==
    [][/\ shifter'.currentFrame >= shifter.currentFrame
       /\ callback.pc = "shift" /\ callback'.pc = "return" =>
             IF callback'.logged
             THEN /\ shifter'.currentFrame = shifter.currentFrame
                  /\ callback'.outdata = Repeat("zero", callback.frames)
             ELSE /\ shifter'.currentFrame = shifter.currentFrame + callback.frames
                  /\ callback'.shifted # NoValue
       /\ callback.pc = "test" /\ callback'.pc = "return" =>
             /\ ~shifter.playing \/ shifter.currentFrame >= Len(audioTimeSeries)
             /\ shifter'.currentFrame = shifter.currentFrame
             /\ callback'.outdata = Repeat("zero", callback.frames)
       /\ ~(callback.pc = "shift" /\ callback'.pc = "return") =>
             shifter'.currentFrame = shifter.currentFrame]_vars

\* the last chunk was shorter than the buffer and the position went past
\* the end of the audio by the full `frames`
C36_Witness ==
    /\ shifter_pc # "parked"
    /\ callback.pc = "return"
    /\ ~callback.logged
    /\ callback.shifted # NoValue
    /\ callback.frames = MaxFrames
    /\ shifter.currentFrame > Len(audioTimeSeries)

====
